---- MODULE Spec2Model ----
(***************************************************************************)
(* Trip lifecycle of the transport bot (src/handlers.py, src/utils.py,     *)
(* src/database.py).                                                        *)
(*                                                                          *)
(* The store is SQLite reached through Database.execute, which opens a      *)
(* connection, runs ONE statement and commits (database.py:163-178).  The   *)
(* atomic unit of the store is therefore a single statement: a handler      *)
(* that issues several statements is modelled as several steps, and the     *)
(* steps of handlers running for different users interleave.                *)
(*                                                                          *)
(* Every handler of handlers.py is an operation a user can invoke with the  *)
(* callback data of his choice.                                             *)
(***************************************************************************)
EXTENDS Integers, Sequences, FiniteSets, TLC

\* ------------------------------------------------------------------ bounds
MaxTrips == 1
MaxClock == 390
MaxCalls == 7
MaxMinutes == 12      \* longest waiting time a charge is asked for, minutes
MaxReviews == 3       \* rows of table reviews

\* ------------------------------------------------------------ configuration
\* config.py is not part of the sources; the tables below follow the shape
\* the specification gives them (section 4.3 and 6).
Cities == {"A", "B"}

\* the route ordered while the trip lifecycle is explored
Origins == {"A"}

Destinations == {"B"}

\* the cities of the distance table
TableCities == {"A", "B", "C", "D"}

\* an undirected table: A-B and A-C are entered in one order, C-D in both
\* orders with the same distance, every other pair is absent
DISTANCES ==
    (<<"A", "B">> :> 100) @@ (<<"C", "A">> :> 37)
      @@ (<<"C", "D">> :> 251) @@ (<<"D", "C">> :> 251)

DefaultDistance == 400

OfferLimit == 10

CAR_CLASSES ==
    [economy  |-> [base_price |-> 12, min_price |-> 500],
     comfort  |-> [base_price |-> 15, min_price |-> 700],
     business |-> [base_price |-> 20, min_price |-> 1000]]

\* the class names a price is asked for: the configured ones and one that
\* is not configured
ClassNames == {"economy", "comfort", "business", "premium"}

ADMINS == {4}

\* ------------------------------------------------------------------ values
\* the users with a row in table users at the start
Users == 1..4

\* Telegram accounts that can send updates: the users and an account that
\* never sent /start and so has no row in table users
Accounts == 1..5

Null == -1

\* users whose presses of the accept button are explored: a passenger (who
\* has no driver row) and two drivers
Callers == 1..3

\* users whose presses of the start and complete buttons are explored: the
\* two drivers (each is a party of a trip it accepted, a stranger otherwise)
DriverCallers == {2, 3}

\* users who send the admin commands: a driver and the administrator
AdminCallers == {3, 4}

\* users who order trips, users who press the waiting buttons (driver 3 is
\* a party of the trip when it accepted it and a stranger when driver 2
\* did), and the drivers the admin decides on
Riders == {1}

Waiters == {3}

AdminTargets == {2}

\* ---- the order desk: who orders, who is offered the order
\* users who press the order buttons: one with a phone on file, one without
\* and an account without a row in table users
OrderRiders == {1, 2, 5}

\* the driver who answers the offers
OrderDrivers == {3}

\* ten more drivers, who only receive offers
Fleet == 11..20

\* accounts that may block the bot: a passenger and a driver who is offered
\* the order
Blockers == {1, 12}

\* the users who review: the passenger of the trip and a user who has no
\* part in it
Reviewers == {1, 2}

\* the stars of the rating buttons that are pressed (review_rating_<i>)
ReviewRatings == {3, 4, 5}

\* the two waiting buttons: "waiting_start_<id>" and "waiting_stop_<id>"
WaitingVerbs == {"start", "stop"}

\* trip ids a callback may carry; an id is unknown to the store until created
TripIds == 1..MaxTrips

\* the clock moves in steps of six and a half minutes
TickSeconds == {390}

VARIABLES
    trips,      \* table trips: sequence of rows, trip_id = index
    users,      \* table users: user_id -> row
    drivers,    \* table drivers: user_id -> row, for the users that have one
    user_data,  \* context.user_data of every user
    pc,         \* position of the handler running for every user
    loc,        \* local variables of that handler
    last,       \* kind of the message the latest step showed its caller, if any
    accept_shown, \* <<driver, trip>>: drivers shown "order accepted" for a trip
    menus,      \* <<user, city>>: destination buttons trip_select_to has shown a user
    bot,        \* the interpreter running bot.py: position, module globals, handler table
    offers,     \* <<driver, trip>>: offers delivered by notify_drivers_about_trip
    now,        \* wall clock, seconds
    calls,      \* number of updates dispatched to handlers so far
    blocked,    \* accounts that blocked the bot: a send to them raises
    quote,      \* a call of a pricing function and, once made, what it returned
    reviews,    \* table reviews: sequence of rows, id = index
    conv,       \* state of every user in each of the three ConversationHandlers
    undelivered \* <<recipient, kind, trip>>: sends that raised

vars == <<trips, users, drivers, user_data, pc, loc, last, accept_shown, menus, bot, offers,
          now, calls, blocked, undelivered, quote, reviews, conv>>

\* ------------------------------------------------------ the module bot.py
\* the functions handlers.py defines: "from handlers import *" (bot.py:18)
\* binds each of these names in the globals of bot.py
HandlerDefs ==
    {"safe_edit_message", "get_main_keyboard", "start", "show_main_menu",
     "back_to_main", "show_training_offer", "skip_training", "show_profile",
     "set_phone_start", "set_phone_complete", "new_trip", "trip_select_from",
     "trip_select_to", "trip_confirm", "notify_drivers_about_trip",
     "accept_trip", "start_trip", "start_waiting", "stop_waiting",
     "complete_trip", "leave_review", "review_rating", "review_comment",
     "save_review", "become_driver_start", "driver_full_name",
     "driver_car_model", "driver_car_number", "driver_experience",
     "notify_admins_about_new_driver", "admin_panel",
     "admin_drivers_pending", "admin_verify_driver", "admin_reject_driver",
     "my_trips_driver", "handle_message"}

\* the names of "async def <name>(update, context): pass", bot.py lines
\* 197-236, in the order of the file
Stubs ==
    <<"back_to_main", "show_profile", "set_phone_start",
      "set_phone_complete", "new_trip", "trip_select_from", "trip_select_to",
      "trip_confirm", "accept_trip", "start_trip", "complete_trip",
      "start_waiting", "leave_review", "submit_review", "review_rating",
      "review_comment", "become_driver_start", "driver_full_name",
      "driver_car_model", "driver_car_number", "driver_experience",
      "driver_online", "driver_offline", "my_trips_driver",
      "my_trips_passenger", "training_start", "training_scenario",
      "training_complete", "skip_training", "sos_alert", "admin_panel",
      "admin_users", "admin_drivers", "admin_stats", "admin_settings",
      "admin_verify_driver", "admin_reject_driver", "admin_block_user",
      "admin_unblock_user", "handle_message">>

\* the function names main() hands to a handler constructor, bot.py lines
\* 87-179, in the order they are evaluated
Registrations ==
    <<"start", "admin_panel", "back_to_main", "show_profile",
      "set_phone_start", "new_trip", "trip_select_from", "trip_select_to",
      "trip_confirm", "accept_trip", "start_trip", "complete_trip",
      "start_waiting", "leave_review", "submit_review",
      "become_driver_start", "driver_online", "driver_offline",
      "my_trips_driver", "my_trips_passenger", "training_start",
      "training_scenario", "training_complete", "skip_training", "sos_alert",
      "admin_panel", "admin_users", "admin_drivers", "admin_stats",
      "admin_settings", "admin_verify_driver", "admin_reject_driver",
      "admin_block_user", "admin_unblock_user", "become_driver_start",
      "driver_full_name", "driver_car_model", "driver_car_number",
      "driver_experience", "start", "set_phone_start", "set_phone_complete",
      "start", "leave_review", "review_rating", "review_comment", "start",
      "handle_message">>

FunctionNames ==
    HandlerDefs \cup {Stubs[i] : i \in DOMAIN Stubs}
                \cup {Registrations[i] : i \in DOMAIN Registrations}

\* the interpreter before the first statement of bot.py
Unloaded ==
    [at |-> "import", step |-> 0,
     globals |-> [n \in FunctionNames |-> "unbound"],
     table |-> <<>>, ran |-> <<>>]

\* ------------------------------------------------------------ pure helpers
\* mutant: one rate for every minute after the free ones
FlatWaitingCharge(minutes) ==
    IF minutes <= 2 THEN 0 ELSE (minutes - 2) * 3

\* mutant: every tier starts from nothing
WaitingChargeWithoutCarry(minutes) ==
    IF minutes <= 2 THEN 0
    ELSE IF minutes <= 5 THEN (minutes - 2) * 3
    ELSE IF minutes <= 7 THEN (minutes - 5) * 4
    ELSE (minutes - 7) * 5

\* utils.calculate_waiting_charge
calculate_waiting_charge(minutes) ==
    IF minutes <= 2 THEN 0
    ELSE IF minutes <= 5 THEN (minutes - 2) * 3
    ELSE IF minutes <= 7 THEN (3 * 3) + (minutes - 5) * 4
    ELSE (3 * 3) + (2 * 4) + (minutes - 7) * 5

\* dict.get on the distance table: Null when the key is absent
DistanceGet(a, b) ==
    IF <<a, b>> \in DOMAIN DISTANCES THEN DISTANCES[<<a, b>>] ELSE Null

\* mutant: the price is cut down to the multiple of 50 below it
RoundDown50(price) == price \div 50

\* Python round(): half to even, on price / 50
RoundHalfEven50(price) ==
    LET q == price \div 50
        r == price % 50
    IN  IF r < 25 THEN q
        ELSE IF r > 25 THEN q + 1
        ELSE IF q % 2 = 0 THEN q ELSE q + 1

Max(a, b) == IF a >= b THEN a ELSE b

\* mutant: the table is looked up in the order of the arguments only
OneWayPrice(from_city, to_city, car_class) ==
    LET d1 == DistanceGet(from_city, to_city)
        distance == IF d1 # Null /\ d1 # 0 THEN d1 ELSE DefaultDistance
        car_info == IF car_class \in DOMAIN CAR_CLASSES
                    THEN CAR_CLASSES[car_class]
                    ELSE CAR_CLASSES["economy"]
        price == 60 + (distance * car_info.base_price)
    IN  <<Max(car_info.min_price, RoundHalfEven50(price) * 50), distance>>

\* utils.calculate_price: <<price, distance>>
calculate_price(from_city, to_city, car_class) ==
    LET d1 == DistanceGet(from_city, to_city)
        d2 == DistanceGet(to_city, from_city)
        distance == IF d1 # Null /\ d1 # 0 THEN d1
                    ELSE IF d2 # Null THEN d2 ELSE DefaultDistance
        car_info == IF car_class \in DOMAIN CAR_CLASSES
                    THEN CAR_CLASSES[car_class]
                    ELSE CAR_CLASSES["economy"]
        price == 60 + (distance * car_info.base_price)
    IN  <<Max(car_info.min_price, RoundHalfEven50(price) * 50), distance>>

\* a check that lets everybody through
EverybodyIsAdmin(user_id, admins_list) == TRUE

\* utils.is_admin
is_admin(user_id, admins_list) == user_id \in admins_list

\* int((datetime.now() - start_time).total_seconds() / 60)
ElapsedMinutes(start_time, t) == (t - start_time) \div 60

\* ------------------------------------------------------------------- store
TripExists(t) == t \in DOMAIN trips

\* mutant: the status condition of the SELECT is lost
SelectTripAnyStatus(t, st) == IF TripExists(t) THEN <<trips[t]>> ELSE <<>>

\* SELECT * FROM trips WHERE trip_id = ? AND status = ?  (fetch_one)
SelectTripWithStatus(t, st) ==
    IF TripExists(t) /\ trips[t].status = st THEN <<trips[t]>> ELSE <<>>

\* SELECT * FROM trips WHERE trip_id = ?  (fetch_one)
SelectTrip(t) == IF TripExists(t) THEN <<trips[t]>> ELSE <<>>

\* Database.get_user
get_user(u) == IF u \in DOMAIN users THEN <<users[u]>> ELSE <<>>

\* mutant: only the missing record is refused
NoRecord(user) == user = <<>>

\* "not user or not user['phone']"
NoPhoneOnFile(user) == user = <<>> \/ ~user[1].phone

\* Database.get_driver
get_driver(u) == IF u \in DOMAIN drivers THEN <<drivers[u]>> ELSE <<>>

\* UPDATE trips SET ... WHERE trip_id = ?  : no row, no change
UpdateTrip(t, row) == IF TripExists(t) THEN [trips EXCEPT ![t] = row] ELSE trips

\* "not driver or not driver['verified']": Python truth of the integer column
NotVerified(driver) == driver = <<>> \/ driver[1].verified = 0

\* context.bot.send_message inside try/except: the send to an account that
\* blocked the bot raises, the handler logs it and goes on
Failed(recipient, kind, t) ==
    IF recipient \in blocked THEN {<<recipient, kind, t>>} ELSE {}

NoLoc == [trip_id |-> Null, trip |-> <<>>, to_city |-> ""]

NoReply == "none"

\* context.user_data of a user who has entered nothing: no origin, no timer,
\* no review under way ("review_trip", "review_rating"), no field of the
\* driver application ("driver_full_name", "driver_car_model",
\* "driver_car_number"; a text is the sequence of its characters)
EmptySession ==
    [trip_from |-> "", waiting_start |-> [t \in TripIds |-> Null],
     review_trip |-> Null, review_rating |-> Null,
     driver_full_name |-> <<>>, driver_car_model |-> <<>>,
     driver_car_number |-> <<>>]

\* a row of table users: phone set or not, role 'passenger' (the default)
\* or 'driver', trips_count 0, rating 5.0 (the default) as the fraction 5/1
UserRow(has_phone, is_driver) ==
    [phone |-> has_phone, trips_count |-> 0,
     role |-> IF is_driver THEN "driver" ELSE "passenger",
     rating |-> <<5, 1>>]

\* a user who is in none of the conversations: the driver application, the
\* phone entry and the review (bot.py:145-176)
NoConversation == [driver |-> "none", phone |-> "none", review |-> "none"]

\* no pricing call is being looked at
NoQuote == [call |-> <<>>, result |-> <<>>]

Idle(u) == pc[u] = "idle"

\* a new update is dispatched to a handler for u, who has none running
BeginCall(u) ==
    /\ Idle(u) /\ u \notin blocked
    /\ calls < MaxCalls /\ calls' = calls + 1

\* the handler shows its caller a message and returns
Finish(u, kind) ==
    /\ pc' = [pc EXCEPT ![u] = "idle"]
    /\ loc' = [loc EXCEPT ![u] = NoLoc]
    /\ last' = kind

\* the handler goes on to its next statement; nothing is shown in this step
Goto(u, label, l) ==
    /\ pc' = [pc EXCEPT ![u] = label]
    /\ loc' = [loc EXCEPT ![u] = l]
    /\ last' = NoReply

\* ---------------------------------------------------------------- routing
\* Callback data is a string such as "cancel_trip_<id>"; it is kept here as
\* the sequence of its parts between underscores, <<"cancel", "trip", id>>.
\* The CallbackQueryHandler registrations of bot.main, in their order:
\* <<pattern, exact, handler>> where ^p$ is exact and ^p_.*$ is a prefix.
CallbackRoutes ==
    << <<(<<"back", "to", "main">>), TRUE, "back_to_main">>,
       <<(<<"profile">>), TRUE, "show_profile">>,
       <<(<<"set", "phone">>), TRUE, "set_phone_start">>,
       <<(<<"new", "trip">>), TRUE, "new_trip">>,
       <<(<<"trip", "select", "from">>), TRUE, "trip_select_from">>,
       <<(<<"trip", "from">>), FALSE, "trip_select_to">>,
       <<(<<"trip", "to">>), FALSE, "trip_confirm">>,
       <<(<<"accept", "trip">>), FALSE, "accept_trip">>,
       <<(<<"start", "trip">>), FALSE, "start_trip">>,
       <<(<<"complete", "trip">>), FALSE, "complete_trip">>,
       <<(<<"waiting">>), FALSE, "start_waiting">>,
       <<(<<"review">>), FALSE, "leave_review">>,
       <<(<<"submit", "review">>), FALSE, "submit_review">>,
       <<(<<"become", "driver">>), TRUE, "become_driver_start">>,
       <<(<<"driver", "online">>), TRUE, "driver_online">>,
       <<(<<"driver", "offline">>), TRUE, "driver_offline">>,
       <<(<<"my", "trips", "driver">>), TRUE, "my_trips_driver">>,
       <<(<<"my", "trips", "passenger">>), TRUE, "my_trips_passenger">>,
       <<(<<"training", "start">>), TRUE, "training_start">>,
       <<(<<"training">>), FALSE, "training_scenario">>,
       <<(<<"training", "complete">>), TRUE, "training_complete">>,
       <<(<<"skip", "training">>), TRUE, "skip_training">>,
       <<(<<"sos">>), TRUE, "sos_alert">>,
       <<(<<"admin", "panel">>), TRUE, "admin_panel">>,
       <<(<<"admin", "users">>), TRUE, "admin_users">>,
       <<(<<"admin", "drivers">>), TRUE, "admin_drivers">>,
       <<(<<"admin", "stats">>), TRUE, "admin_stats">>,
       <<(<<"admin", "settings">>), TRUE, "admin_settings">>,
       <<(<<"verify", "driver">>), FALSE, "admin_verify_driver">>,
       <<(<<"reject", "driver">>), FALSE, "admin_reject_driver">>,
       <<(<<"block", "user">>), FALSE, "admin_block_user">>,
       <<(<<"unblock", "user">>), FALSE, "admin_unblock_user">> >>

\* re.match of one registered pattern on callback data
PatternMatches(route, data) ==
    LET pattern == route[1] IN
    IF route[2]
    THEN data = pattern
    ELSE /\ Len(data) > Len(pattern)
         /\ SubSeq(data, 1, Len(pattern)) = pattern

\* the handler the Application runs for callback data: the first
\* registration that matches, "none" when no pattern matches.  (The three
\* ConversationHandlers registered after these take callback data only at
\* entry points that an earlier registration already matches, or in a
\* conversation state that is then never entered.)
Route(data) ==
    LET hits == {i \in DOMAIN CallbackRoutes : PatternMatches(CallbackRoutes[i], data)}
    IN  IF hits = {} THEN "none"
        ELSE CallbackRoutes[CHOOSE i \in hits : \A j \in hits : i <= j][3]

\* -------------------------------------------------------------------- Init
Init ==
    /\ trips = <<>>
    /\ users = [u \in Users |-> UserRow(u \in {1, 3}, u \in {2, 3})]
    /\ drivers = (2 :> [verified |-> 0, verified_by |-> Null, online_status |-> 0])
                 @@ (3 :> [verified |-> 1, verified_by |-> 4, online_status |-> 1])
    /\ user_data = [u \in Accounts |-> EmptySession]
    /\ pc = [u \in Accounts |-> "idle"]
    /\ loc = [u \in Accounts |-> NoLoc]
    /\ last = NoReply
    /\ accept_shown = {}
    /\ menus = {}
    /\ bot = Unloaded
    /\ offers = {}
    /\ now = 0
    /\ calls = 0
    /\ blocked = {}
    /\ undelivered = {}
    /\ quote = NoQuote
    /\ reviews = <<>>
    /\ conv = [u \in Accounts |-> NoConversation]

\* a row of table drivers
DriverRow(v, o) ==
    [verified |-> v, verified_by |-> IF v = 0 THEN Null ELSE 4, online_status |-> o]

\* states of table drivers the order desk starts from: driver 2 is pending
\* and driver 3 passes the broadcast query, or driver 2 is rejected and
\* driver 3 offline, so that nobody passes it
OrderTables ==
    { (2 :> DriverRow(0, 1)) @@ (3 :> DriverRow(1, 1)),
      (2 :> DriverRow(-1, 1)) @@ (3 :> DriverRow(1, 0)) }

\* the tables the broadcast is explored with: those, and one in which more
\* drivers pass the query than it returns
BroadcastTables ==
    OrderTables
      \cup { (2 :> DriverRow(0, 1)) @@ (3 :> DriverRow(1, 1))
                @@ [d \in Fleet |-> DriverRow(1, 1)] }

\* the table the transport is explored with: three drivers pass the query
TransportTables ==
    { (2 :> DriverRow(0, 0)) @@ (3 :> DriverRow(1, 1))
          @@ [d \in {12, 13} |-> DriverRow(1, 1)] }

\* a store with the users of Init and one of the given driver tables; the
\* quote is set by the specification
InitDesk(tables) ==
    /\ trips = <<>>
    /\ drivers \in tables
    /\ users = [u \in Users \cup (DOMAIN drivers) |->
                  UserRow(u \in {1, 3}, u \in DOMAIN drivers)]
    /\ user_data = [u \in Accounts |-> EmptySession]
    /\ pc = [u \in Accounts |-> "idle"]
    /\ loc = [u \in Accounts |-> NoLoc]
    /\ last = NoReply
    /\ accept_shown = {}
    /\ menus = {}
    /\ bot = Unloaded
    /\ offers = {}
    /\ now = 0
    /\ calls = 0
    /\ blocked = {}
    /\ undelivered = {}
    /\ reviews = <<>>
    /\ conv = [u \in Accounts |-> NoConversation]

InitOrder == InitDesk(OrderTables) /\ quote = NoQuote

InitBroadcast == InitDesk(BroadcastTables) /\ quote = NoQuote

InitTransport == InitDesk(TransportTables) /\ quote = NoQuote

\* ----------------------------------------------------------------- actions
\* a user blocks the bot in Telegram: from now on every send to the user
\* raises Forbidden, and the user sends no more updates
block_bot(u) ==
    /\ u \in DOMAIN users
    /\ u \notin blocked
    /\ blocked' = blocked \cup {u}
    /\ last' = NoReply
    /\ UNCHANGED <<trips, users, drivers, user_data, pc, loc, accept_shown, bot, menus,
                   offers, now, calls, undelivered, quote, reviews, conv>>

\* mutant: orders nobody has taken expire as time passes
TickExpiring(d) ==
    /\ now + d <= MaxClock
    /\ UNCHANGED calls
    /\ now' = now + d
    /\ last' = NoReply
    /\ trips' = [t \in DOMAIN trips |->
                   IF trips[t].status = "searching"
                   THEN [trips[t] EXCEPT !.status = "cancelled"]
                   ELSE trips[t]]
    /\ UNCHANGED <<users, drivers, user_data, pc, loc, accept_shown, bot, menus, offers, blocked, undelivered, quote, reviews, conv>>

\* the clock advances
Tick(d) ==
    /\ now + d <= MaxClock
    /\ UNCHANGED calls
    /\ now' = now + d
    /\ last' = NoReply
    /\ UNCHANGED <<trips, users, drivers, user_data, pc, loc, accept_shown, bot, menus, offers, blocked, undelivered, quote, reviews, conv>>

\* handlers.trip_select_to: remembers the origin in the session
trip_select_to(u, city) ==
    /\ BeginCall(u)
    /\ Len(trips) < MaxTrips
    /\ user_data' = [user_data EXCEPT ![u].trip_from = city]
    \* the menu holds a button "trip_to_<c>" for every other city
    /\ menus' = menus \cup {<<u, c>> : c \in Cities \ {city}}
    /\ last' = NoReply
    /\ UNCHANGED <<trips, users, drivers, pc, loc, accept_shown, bot, offers, now, blocked, undelivered, quote, reviews, conv>>

\* handlers.trip_confirm, lines 383-416: route and phone checks
trip_confirm(u, to_city) ==
    /\ BeginCall(u)
    /\ LET from_city == user_data[u].trip_from IN
       IF from_city = "" \/ to_city = ""
       THEN Finish(u, "no_route")
       ELSE IF NoPhoneOnFile(get_user(u))
       THEN Finish(u, "need_phone")
       ELSE /\ Len(trips) < MaxTrips
            /\ Goto(u, "confirm_insert", [NoLoc EXCEPT !.to_city = to_city])
    /\ UNCHANGED <<trips, users, drivers, user_data, accept_shown, bot, menus, offers, now, blocked, undelivered, quote, reviews, conv>>

\* the row of INSERT INTO trips, other columns at their defaults
NewTrip(u, from_city, to_city) ==
    [passenger_id |-> u, driver_id |-> Null,
     from_city |-> from_city, to_city |-> to_city,
     price |-> calculate_price(from_city, to_city, "economy")[1],
     status |-> "searching",
     cancelled_by |-> Null, cancel_reason |-> Null,
     waiting_minutes |-> 0, waiting_charge |-> 0, final_price |-> Null]

\* handlers.trip_confirm, lines 418-451: the INSERT under a fresh id, then
\* the message "order created" through safe_edit_message.  For a passenger
\* who has blocked the bot meanwhile the edit raises and so does the reply
\* that safe_edit_message sends instead (handlers.py:39-41); nothing catches
\* the second exception and trip_confirm ends there.
trip_confirm_insert(u) ==
    /\ pc[u] = "confirm_insert"
    /\ UNCHANGED calls
    /\ Len(trips) < MaxTrips
    /\ trips' = Append(trips, NewTrip(u, user_data[u].trip_from, loc[u].to_city))
    /\ undelivered' = undelivered \cup Failed(u, "order_created", Len(trips) + 1)
    /\ IF u \in blocked
       THEN Finish(u, "error")
       ELSE Goto(u, "confirm_notify", [NoLoc EXCEPT !.trip_id = Len(trips) + 1])
    /\ UNCHANGED <<users, drivers, user_data, accept_shown, bot, menus, offers, now, calls, blocked, quote, reviews, conv>>

\* mutant: the query without the condition d.verified = 1
OnlineDrivers ==
    {d \in DOMAIN drivers \cap DOMAIN users : drivers[d].online_status = 1}

\* SELECT ... FROM drivers d JOIN users u ... WHERE d.verified = 1 AND
\* d.online_status = 1: the rows the condition keeps
EligibleDrivers ==
    {d \in DOMAIN drivers \cap DOMAIN users :
        drivers[d].verified = 1 /\ drivers[d].online_status = 1}

\* ... LIMIT 10: the query has no ORDER BY, so which ten rows it returns out
\* of more is not fixed; every choice is a possible result
SelectedDrivers ==
    IF Cardinality(EligibleDrivers) <= OfferLimit
    THEN {EligibleDrivers}
    ELSE {S \in SUBSET EligibleDrivers : Cardinality(S) = OfferLimit}

\* mutant: the first send that raises ends the loop (drivers in id order)
DeliveredUntilFailure(selected) ==
    {d \in selected : \A f \in selected \cap blocked : d < f}

\* the loop "for driver in drivers: try: send_message except: log": the
\* drivers the offer reaches
Delivered(selected) == selected \ blocked

\* handlers.notify_drivers_about_trip
notify_drivers_about_trip(u) ==
    /\ pc[u] = "confirm_notify"
    /\ UNCHANGED calls
    /\ \E selected \in SelectedDrivers :
         LET t == loc[u].trip_id IN
         /\ offers' = offers \cup {<<d, t>> : d \in Delivered(selected)}
         /\ undelivered' = undelivered
                \cup {<<d, "offer", t>> : d \in selected \cap blocked}
    /\ Finish(u, "trip_created")
    /\ UNCHANGED <<trips, users, drivers, user_data, accept_shown, bot, menus, now, blocked, quote, reviews, conv>>

\* handlers.accept_trip, lines 500-515: SELECT ... AND status = 'searching'
accept_trip(u, t) ==
    /\ BeginCall(u)
    /\ LET trip == SelectTripWithStatus(t, "searching") IN
       IF trip = <<>>
       THEN Finish(u, "unavailable")
       ELSE Goto(u, "accept_get_driver", [NoLoc EXCEPT !.trip_id = t])
    /\ UNCHANGED <<trips, users, drivers, user_data, accept_shown, bot, menus, offers, now, blocked, undelivered, quote, reviews, conv>>

\* handlers.accept_trip, lines 517-525: the verification check
accept_trip_get_driver(u) ==
    /\ pc[u] = "accept_get_driver"
    /\ UNCHANGED calls
    /\ LET driver == get_driver(u) IN
       IF NotVerified(driver)
       THEN Finish(u, "not_allowed")
       ELSE Goto(u, "accept_update", loc[u])
    /\ UNCHANGED <<trips, users, drivers, user_data, accept_shown, bot, menus, offers, now, calls, blocked, undelivered, quote, reviews, conv>>

\* mutant: the UPDATE sets the status and leaves driver_id alone
AcceptedRowNoDriver(row, driver_id) == [row EXCEPT !.status = "accepted"]

\* the row written by UPDATE trips SET driver_id, status, accepted_at
\* (the timestamp columns are written and never read by a handler; they
\* are left out of the rows)
AcceptedRow(row, driver_id) ==
    [row EXCEPT !.driver_id = driver_id, !.status = "accepted"]

\* handlers.accept_trip, lines 527-583: UPDATE ... WHERE trip_id = ?
accept_trip_update(u) ==
    /\ pc[u] = "accept_update"
    /\ UNCHANGED calls
    /\ LET t == loc[u].trip_id IN
       /\ trips' = UpdateTrip(t, AcceptedRow(trips[t], u))
       /\ accept_shown' = accept_shown \cup {<<u, t>>}
       \* the passenger is told; passenger_id is written by the INSERT only,
       \* so the row holds what the SELECT read
       /\ undelivered' = undelivered
              \cup Failed(trips[t].passenger_id, "driver_found", t)
       /\ Finish(u, "accepted")
    /\ UNCHANGED <<users, drivers, user_data, menus, bot, offers, now, calls, blocked, quote, reviews, conv>>

\* handlers.start_trip, lines 593-608: SELECT ... AND status = 'accepted'
start_trip(u, t) ==
    /\ BeginCall(u)
    /\ LET trip == SelectTripWithStatus(t, "accepted") IN
       IF trip = <<>>
       THEN Finish(u, "cannot_start")
       ELSE Goto(u, "start_update", [NoLoc EXCEPT !.trip_id = t, !.trip = trip])
    /\ UNCHANGED <<trips, users, drivers, user_data, accept_shown, bot, menus, offers, now, blocked, undelivered, quote, reviews, conv>>

\* the row written by UPDATE trips SET status, started_at
StartedRow(row) == [row EXCEPT !.status = "started"]

\* handlers.start_trip, lines 610-640
start_trip_update(u) ==
    /\ pc[u] = "start_update"
    /\ UNCHANGED calls
    /\ LET t == loc[u].trip_id
           read == loc[u].trip[1]
           other_id == IF u = read.driver_id THEN read.passenger_id
                       ELSE read.driver_id
       IN
       /\ trips' = UpdateTrip(t, StartedRow(trips[t]))
       /\ undelivered' = undelivered \cup Failed(other_id, "trip_started", t)
       /\ Finish(u, "started")
    /\ UNCHANGED <<users, drivers, user_data, accept_shown, bot, menus, offers, now, calls, blocked, quote, reviews, conv>>

\* handlers.start_waiting: the timer anchor goes to the caller's session
start_waiting(u, t) ==
    /\ BeginCall(u)
    /\ user_data' = [user_data EXCEPT ![u].waiting_start[t] = now]
    /\ Finish(u, "waiting_started")
    /\ UNCHANGED <<trips, users, drivers, accept_shown, bot, menus, offers, now, blocked, undelivered, quote, reviews, conv>>

\* mutant: the UPDATE writes the minutes and leaves the surcharge alone
WaitedRowMinutesOnly(row, minutes) == [row EXCEPT !.waiting_minutes = minutes]

\* the row written by UPDATE trips SET waiting_minutes, waiting_charge
WaitedRow(row, minutes) ==
    [row EXCEPT !.waiting_minutes = minutes,
                !.waiting_charge = calculate_waiting_charge(minutes)]

\* handlers.stop_waiting
stop_waiting(u, t) ==
    /\ BeginCall(u)
    /\ LET start_time == user_data[u].waiting_start[t] IN
       IF start_time # Null
       THEN /\ trips' = UpdateTrip(t, WaitedRow(trips[t], ElapsedMinutes(start_time, now)))
            /\ user_data' = [user_data EXCEPT ![u].waiting_start[t] = Null]
            /\ Finish(u, "waiting_stopped")
       ELSE /\ Finish(u, "no_timer")
            /\ UNCHANGED <<trips, user_data>>
    /\ UNCHANGED <<users, drivers, accept_shown, bot, menus, offers, now, blocked, undelivered, quote, reviews, conv>>

\* handlers.complete_trip, lines 713-719: SELECT ... AND status = 'started'
complete_trip(u, t) ==
    /\ BeginCall(u)
    /\ LET trip == SelectTripWithStatus(t, "started") IN
       IF trip = <<>>
       THEN Goto(u, "complete_recheck", [NoLoc EXCEPT !.trip_id = t])
       ELSE Goto(u, "complete_update", [NoLoc EXCEPT !.trip_id = t, !.trip = trip])
    /\ UNCHANGED <<trips, users, drivers, user_data, accept_shown, bot, menus, offers, now, blocked, undelivered, quote, reviews, conv>>

\* handlers.complete_trip, lines 720-736: the second look at the trip
complete_trip_recheck(u) ==
    /\ pc[u] = "complete_recheck"
    /\ UNCHANGED calls
    /\ LET trip == SelectTrip(loc[u].trip_id) IN
       IF trip # <<>> /\ trip[1].status = "completed"
       THEN Finish(u, "already_completed")
       ELSE Finish(u, "cannot_complete")
    /\ UNCHANGED <<trips, users, drivers, user_data, accept_shown, bot, menus, offers, now, calls, blocked, undelivered, quote, reviews, conv>>

\* the row written by UPDATE trips SET status, completed_at, final_price;
\* the final price is computed from the row read earlier
CompletedRow(row, read) ==
    [row EXCEPT !.status = "completed",
                !.final_price = read.price + read.waiting_charge]

\* handlers.complete_trip, lines 738-747
complete_trip_update(u) ==
    /\ pc[u] = "complete_update"
    /\ UNCHANGED calls
    /\ LET t == loc[u].trip_id IN
       trips' = UpdateTrip(t, CompletedRow(trips[t], loc[u].trip[1]))
    /\ Goto(u, "complete_count_passenger", loc[u])
    /\ UNCHANGED <<users, drivers, user_data, accept_shown, bot, menus, offers, now, calls, blocked, undelivered, quote, reviews, conv>>

\* UPDATE users SET trips_count = trips_count + 1 WHERE user_id = ?
IncrementTrips(uid) ==
    IF uid \in DOMAIN users
    THEN [users EXCEPT ![uid].trips_count = @ + 1]
    ELSE users

\* handlers.complete_trip, lines 749-754, first pass of the loop
complete_trip_count_passenger(u) ==
    /\ pc[u] = "complete_count_passenger"
    /\ UNCHANGED calls
    /\ users' = IncrementTrips(loc[u].trip[1].passenger_id)
    /\ Goto(u, "complete_count_driver", loc[u])
    /\ UNCHANGED <<trips, drivers, user_data, accept_shown, bot, menus, offers, now, calls, blocked, undelivered, quote, reviews, conv>>

\* handlers.complete_trip, lines 749-791, second pass of the loop and the end
complete_trip_count_driver(u) ==
    /\ pc[u] = "complete_count_driver"
    /\ UNCHANGED calls
    /\ users' = IncrementTrips(loc[u].trip[1].driver_id)
    /\ LET t == loc[u].trip_id
           read == loc[u].trip[1]
       IN  undelivered' = undelivered
              \cup Failed(read.passenger_id, "trip_completed", t)
              \cup Failed(read.driver_id, "trip_completed", t)
    /\ Finish(u, "completed")
    /\ UNCHANGED <<trips, drivers, user_data, accept_shown, bot, menus, offers, now, calls, blocked, quote, reviews, conv>>

\* UPDATE drivers SET verified = ?, verified_by = ? WHERE user_id = ?
SetVerified(d, v, admin_id) ==
    IF d \in DOMAIN drivers
    THEN [drivers EXCEPT ![d].verified = v, ![d].verified_by = admin_id]
    ELSE drivers

\* handlers.admin_verify_driver
admin_verify_driver(a, d) ==
    /\ BeginCall(a)
    /\ IF is_admin(a, ADMINS)
       THEN /\ drivers' = SetVerified(d, 1, a)
            /\ last' = "driver_verified"
       ELSE /\ last' = "access_denied"
            /\ UNCHANGED drivers
    /\ UNCHANGED <<trips, users, user_data, pc, loc, accept_shown, bot, menus, offers, now, blocked, undelivered, quote, reviews, conv>>

\* handlers.admin_reject_driver
admin_reject_driver(a, d) ==
    /\ BeginCall(a)
    /\ IF is_admin(a, ADMINS)
       THEN /\ drivers' = SetVerified(d, -1, a)
            /\ last' = "driver_rejected"
       ELSE /\ last' = "access_denied"
            /\ UNCHANGED drivers
    /\ UNCHANGED <<trips, users, user_data, pc, loc, accept_shown, bot, menus, offers, now, blocked, undelivered, quote, reviews, conv>>

\* the press of the button "cancel_trip_<id>" that trip_confirm puts under
\* the new order (handlers.py:435-439): the Application looks for a handler
\* of the callback data and, finding none, drops the update
cancel_trip_pressed(u, t) ==
    /\ BeginCall(u)
    /\ Route(<<"cancel", "trip", t>>) = "none"
    /\ last' = NoReply
    /\ UNCHANGED <<trips, users, drivers, user_data, pc, loc, accept_shown, bot, menus, offers, now, blocked, undelivered, quote, reviews, conv>>

\* str.replace(prefix, "") on callback data that is a prefix followed by an
\* id: the prefix is removed when the data starts with it, and the data
\* comes back whole when it does not
StripPrefix(data, prefix) ==
    IF Len(data) >= Len(prefix) /\ SubSeq(data, 1, Len(prefix)) = prefix
    THEN SubSeq(data, Len(prefix) + 1, Len(data))
    ELSE data

\* the press of "waiting_start_<id>" (button of start_trip) or of
\* "waiting_stop_<id>" (button of start_waiting): both match the only
\* registration for waiting buttons, "^waiting_.*$" (bot.py:108), whose
\* handler is start_waiting.  It takes as trip id what is left of the data
\* without "waiting_start_" and stores the time under that key; a key that
\* is no trip id is read by no handler and is not kept in the model
waiting_pressed(u, verb, t) ==
    /\ BeginCall(u)
    /\ Route(<<"waiting", verb, t>>) = "start_waiting"
    /\ LET key == StripPrefix(<<"waiting", verb, t>>, <<"waiting", "start">>) IN
       user_data' = IF Len(key) = 1 /\ key[1] \in TripIds
                    THEN [user_data EXCEPT ![u].waiting_start[key[1]] = now]
                    ELSE user_data
    /\ Finish(u, "waiting_started")
    /\ UNCHANGED <<trips, users, drivers, accept_shown, bot, menus, offers, now, blocked, undelivered, quote, reviews, conv>>

\* ------------------------------------------------------------ the reviews
\* a trip between passenger 1 and driver 3 as the lifecycle leaves it in the
\* given status
TripIn(status) ==
    LET row == NewTrip(1, "A", "B") IN
    [row EXCEPT
        !.status = status,
        !.driver_id = IF status = "searching" THEN Null ELSE 3,
        !.final_price = IF status = "completed"
                        THEN row.price + row.waiting_charge ELSE Null]

RECURSIVE GCD(_, _)
GCD(a, b) == IF b = 0 THEN a ELSE GCD(b, a % b)

\* the rows of reviews addressed to a user
ReviewsTo(table, to_user) == {i \in DOMAIN table : table[i].to_user = to_user}

RECURSIVE SumRatings(_, _)
SumRatings(table, rows) ==
    IF rows = {} THEN 0
    ELSE LET i == CHOOSE j \in rows : TRUE
         IN  table[i].rating + SumRatings(table, rows \ {i})

\* mutant: the rating becomes the stars of the latest review
LatestRating(table, to_user) ==
    LET rows == ReviewsTo(table, to_user) IN
    IF rows = {} THEN <<>>
    ELSE <<table[CHOOSE i \in rows : \A j \in rows : j <= i].rating, 1>>

\* SELECT AVG(rating) FROM reviews WHERE to_user = ?: the quotient sum/count
\* as a fraction in lowest terms, <<>> for the NULL of no such row
AvgRating(table, to_user) ==
    LET rows == ReviewsTo(table, to_user)
        total == SumRatings(table, rows)
        count == Cardinality(rows)
    IN  IF rows = {} THEN <<>>
        ELSE <<total \div GCD(total, count), count \div GCD(total, count)>>

\* INSERT INTO reviews: the row is stored unless a constraint of the table
\* refuses it (to_user NOT NULL, rating between 1 and 5, from_user and
\* to_user rows of users)
ReviewAccepted(row) ==
    /\ row.to_user # Null
    /\ row.rating \in 1..5
    /\ row.from_user \in DOMAIN users
    /\ row.to_user \in DOMAIN users

\* What a ConversationHandler of bot.main records when the handler it called
\* for user u returns state: the state the user is in from then on ("none"
\* once the handler returns END).  A handler that returns None or raises
\* leaves conv as it is.
Returned(u, flow, state) == [conv EXCEPT ![u][flow] = state]

\* handlers.leave_review: the trip of the pressed button goes to the session.
\* The state it returns is recorded when the ConversationHandler called it
\* (bot.py:168) and dropped when the CallbackQueryHandler of bot.py:111 did.
leave_review(u, t, in_conversation) ==
    /\ user_data' = [user_data EXCEPT ![u].review_trip = t]
    /\ last' = NoReply
    /\ conv' = IF in_conversation
               THEN Returned(u, "review", "REVIEW_RATING") ELSE conv
    /\ UNCHANGED <<trips, users, drivers, pc, loc, accept_shown, bot, menus, offers, now, calls, blocked, undelivered, quote, reviews>>

\* handlers.review_rating: the stars of the pressed button go to the session
review_rating(u, rating) ==
    /\ user_data' = [user_data EXCEPT ![u].review_rating = rating]
    /\ last' = NoReply
    /\ conv' = Returned(u, "review", "REVIEW_COMMENT")
    /\ UNCHANGED <<trips, users, drivers, pc, loc, accept_shown, bot, menus, offers, now, calls, blocked, undelivered, quote, reviews>>

\* handlers.save_review, called by review_comment with the text as comment;
\* the function has no await, so no other handler runs inside it
save_review(u) ==
    LET trip_id == user_data[u].review_trip
        rating == user_data[u].review_rating
        trip == SelectTrip(trip_id)
    IN  IF trip_id = Null \/ rating = Null \/ trip = <<>>
        THEN UNCHANGED <<reviews, users, user_data>>
        ELSE LET to_user == IF u = trip[1].passenger_id
                            THEN trip[1].driver_id ELSE trip[1].passenger_id
                 row == [trip_id |-> trip_id, from_user |-> u,
                         to_user |-> to_user, rating |-> rating]
                 stored == IF ReviewAccepted(row) THEN Append(reviews, row)
                           ELSE reviews
             IN  /\ reviews' = stored
                 /\ users' = IF to_user \in DOMAIN users
                              THEN [users EXCEPT ![to_user].rating =
                                        AvgRating(stored, to_user)]
                              ELSE users
                 /\ user_data' = [user_data EXCEPT ![u].review_trip = Null,
                                                    ![u].review_rating = Null]

\* handlers.review_comment: the review is saved and the user is thanked.
\* The last statement, "return ConversationHandler.END" (handlers.py:854),
\* raises NameError, the module importing ContextTypes alone from
\* telegram.ext (handlers.py:5): no state is returned and the conversation
\* stays where it is.
review_comment(u) ==
    /\ Len(reviews) < MaxReviews
    /\ save_review(u)
    /\ last' = "review_thanks"
    /\ UNCHANGED <<trips, drivers, pc, loc, accept_shown, bot, menus, offers, now, calls, blocked, undelivered, quote, conv>>

\* the users press what the screens offer them in turn: the review button
\* under the message of complete_trip, ...
review_pressed(u, t) ==
    /\ user_data[u].review_trip = Null
    /\ leave_review(u, t, TRUE)

\* ... then one of the star buttons of leave_review, ...
stars_pressed(u, rating) ==
    /\ user_data[u].review_trip # Null
    /\ user_data[u].review_rating = Null
    /\ review_rating(u, rating)

\* ... then they send the comment review_rating asked for
comment_sent(u) ==
    /\ user_data[u].review_rating # Null
    /\ review_comment(u)

\* the calls of the pricing functions that are looked at
PricingCalls ==
    {<<"calculate_waiting_charge", m>> : m \in 0..MaxMinutes}
      \cup {<<"calculate_price", a, b, c>> :
                a \in TableCities, b \in TableCities, c \in ClassNames}

\* a store as in Init, and one pricing call about to be made
InitPricing ==
    /\ InitDesk(TransportTables)
    /\ quote \in {[call |-> c, result |-> <<>>] : c \in PricingCalls}

\* everything but the quote
desk == <<trips, users, drivers, user_data, pc, loc, last, accept_shown, menus, bot, offers,
          now, calls, blocked, undelivered, reviews, conv>>

\* utils.calculate_waiting_charge is called for the minutes of the quote and
\* for one minute more
quote_waiting_charge ==
    /\ quote.call # <<>> /\ quote.call[1] = "calculate_waiting_charge"
    /\ quote.result = <<>>
    /\ LET minutes == quote.call[2] IN
       quote' = [quote EXCEPT !.result =
                    <<calculate_waiting_charge(minutes),
                      calculate_waiting_charge(minutes + 1)>>]
    /\ UNCHANGED desk

\* utils.calculate_price is called for the route of the quote, for the
\* route the other way round, and for the route of the quote once more
quote_price ==
    /\ quote.call # <<>> /\ quote.call[1] = "calculate_price"
    /\ quote.result = <<>>
    /\ LET a == quote.call[2]
           b == quote.call[3]
           c == quote.call[4]
       IN  quote' = [quote EXCEPT !.result =
                        <<calculate_price(a, b, c),
                          calculate_price(b, a, c),
                          calculate_price(a, b, c)>>]
    /\ UNCHANGED desk

Next ==
    \/ \E d \in TickSeconds : Tick(d)
    \/ \E u \in Riders, c \in Origins : trip_select_to(u, c)
    \/ \E u \in Riders, c \in Destinations : trip_confirm(u, c)
    \/ \E u \in Riders : trip_confirm_insert(u)
    \/ \E u \in Riders : notify_drivers_about_trip(u)
    \/ \E u \in Callers, t \in TripIds : accept_trip(u, t)
    \/ \E u \in Callers : accept_trip_get_driver(u)
    \/ \E u \in Callers : accept_trip_update(u)
    \/ \E u \in DriverCallers, t \in TripIds : start_trip(u, t)
    \/ \E u \in DriverCallers : start_trip_update(u)
    \/ \E u \in Waiters, t \in TripIds : start_waiting(u, t)
    \/ \E u \in Waiters, t \in TripIds : stop_waiting(u, t)
    \/ \E u \in DriverCallers, t \in TripIds : complete_trip(u, t)
    \/ \E u \in DriverCallers : complete_trip_recheck(u)
    \/ \E u \in DriverCallers : complete_trip_update(u)
    \/ \E u \in DriverCallers : complete_trip_count_passenger(u)
    \/ \E u \in DriverCallers : complete_trip_count_driver(u)
    \/ \E a \in AdminCallers, d \in AdminTargets : admin_verify_driver(a, d)
    \/ \E a \in AdminCallers, d \in AdminTargets : admin_reject_driver(a, d)
    \/ \E u \in Riders, t \in TripIds : cancel_trip_pressed(u, t)

Spec == Init /\ [][Next]_vars

\* the order desk: orders by users of every kind and one driver who answers
NextOrder ==
    \/ \E d \in TickSeconds : Tick(d)
    \/ \E u \in OrderRiders, c \in Origins : trip_select_to(u, c)
    \/ \E u \in OrderRiders, c \in Cities : trip_confirm(u, c)
    \/ \E u \in OrderRiders : trip_confirm_insert(u)
    \/ \E u \in OrderRiders : notify_drivers_about_trip(u)
    \/ \E u \in OrderDrivers, t \in TripIds : accept_trip(u, t)
    \/ \E u \in OrderDrivers : accept_trip_get_driver(u)
    \/ \E u \in OrderDrivers : accept_trip_update(u)
    \/ \E u \in OrderRiders, t \in TripIds : cancel_trip_pressed(u, t)
    \/ \E a \in ADMINS, d \in AdminTargets : admin_verify_driver(a, d)

SpecOrder == InitOrder /\ [][NextOrder]_vars

\* the broadcast: orders of one passenger over driver tables of every kind,
\* while the admin decides on a pending driver
NextBroadcast ==
    \/ \E u \in Riders, c \in Origins : trip_select_to(u, c)
    \/ \E u \in Riders, c \in Destinations : trip_confirm(u, c)
    \/ \E u \in Riders : trip_confirm_insert(u)
    \/ \E u \in Riders : notify_drivers_about_trip(u)
    \/ \E a \in ADMINS, d \in AdminTargets : admin_verify_driver(a, d)
    \/ \E a \in ADMINS, d \in AdminTargets : admin_reject_driver(a, d)

SpecBroadcast == InitBroadcast /\ [][NextBroadcast]_vars

\* the transport: one passenger, one driver who takes the trip to its end,
\* and users who block the bot on the way
NextTransport ==
    \/ \E u \in Riders, c \in Origins : trip_select_to(u, c)
    \/ \E u \in Riders, c \in Destinations : trip_confirm(u, c)
    \/ \E u \in Riders : trip_confirm_insert(u)
    \/ \E u \in Riders : notify_drivers_about_trip(u)
    \/ \E u \in OrderDrivers, t \in TripIds : accept_trip(u, t)
    \/ \E u \in OrderDrivers : accept_trip_get_driver(u)
    \/ \E u \in OrderDrivers : accept_trip_update(u)
    \/ \E u \in OrderDrivers, t \in TripIds : start_trip(u, t)
    \/ \E u \in OrderDrivers : start_trip_update(u)
    \/ \E u \in OrderDrivers, t \in TripIds : complete_trip(u, t)
    \/ \E u \in OrderDrivers : complete_trip_recheck(u)
    \/ \E u \in OrderDrivers : complete_trip_update(u)
    \/ \E u \in OrderDrivers : complete_trip_count_passenger(u)
    \/ \E u \in OrderDrivers : complete_trip_count_driver(u)
    \/ \E u \in Blockers : block_bot(u)

SpecTransport == InitTransport /\ [][NextTransport]_vars

\* the journey: one passenger and one driver pressing the buttons the bot
\* shows them, from the order to the completed trip, with the waiting timer
NextJourney ==
    \/ \E d \in TickSeconds : Tick(d)
    \/ \E u \in Riders, c \in Origins : trip_select_to(u, c)
    \/ \E u \in Riders, c \in Destinations : trip_confirm(u, c)
    \/ \E u \in Riders : trip_confirm_insert(u)
    \/ \E u \in Riders : notify_drivers_about_trip(u)
    \/ \E u \in OrderDrivers, t \in TripIds : accept_trip(u, t)
    \/ \E u \in OrderDrivers : accept_trip_get_driver(u)
    \/ \E u \in OrderDrivers : accept_trip_update(u)
    \/ \E u \in OrderDrivers, t \in TripIds : start_trip(u, t)
    \/ \E u \in OrderDrivers : start_trip_update(u)
    \/ \E u \in OrderDrivers, t \in TripIds, verb \in WaitingVerbs :
            waiting_pressed(u, verb, t)
    \/ \E u \in OrderDrivers, t \in TripIds : complete_trip(u, t)
    \/ \E u \in OrderDrivers : complete_trip_recheck(u)
    \/ \E u \in OrderDrivers : complete_trip_update(u)
    \/ \E u \in OrderDrivers : complete_trip_count_passenger(u)
    \/ \E u \in OrderDrivers : complete_trip_count_driver(u)

SpecJourney == InitTransport /\ [][NextJourney]_vars

\* the pricing functions, called on every input of PricingCalls
NextPricing ==
    \/ quote_waiting_charge
    \/ quote_price

SpecPricing == InitPricing /\ [][NextPricing]_vars

\* a store with one trip between passenger 1 and driver 3 that is searching,
\* started or completed, the trip counts as complete_trip leaves them, and
\* no review yet
InitReview ==
    /\ \E status \in {"searching", "started", "completed"} :
         /\ trips = <<TripIn(status)>>
         /\ users = [u \in Users |->
                [UserRow(u \in {1, 3}, u \in {2, 3}) EXCEPT
                    !.trips_count =
                        IF status = "completed" /\ u \in {1, 3} THEN 1 ELSE 0]]
    /\ drivers = (2 :> DriverRow(0, 0)) @@ (3 :> DriverRow(1, 1))
    /\ user_data = [u \in Accounts |-> EmptySession]
    /\ pc = [u \in Accounts |-> "idle"]
    /\ loc = [u \in Accounts |-> NoLoc]
    /\ last = NoReply
    /\ accept_shown = {}
    /\ menus = {}
    /\ bot = Unloaded
    /\ offers = {}
    /\ now = 0
    /\ calls = 0
    /\ blocked = {}
    /\ undelivered = {}
    /\ quote = NoQuote
    /\ reviews = <<>>
    /\ conv = [u \in Accounts |-> NoConversation]

\* the reviews: users rate the trips they choose and send their comment
NextReview ==
    \/ \E u \in Reviewers, t \in TripIds : review_pressed(u, t)
    \/ \E u \in Reviewers, r \in ReviewRatings : stars_pressed(u, r)
    \/ \E u \in Reviewers : comment_sent(u)

SpecReview == InitReview /\ [][NextReview]_vars

\* ---------------------------------------------------------------- registry
\* the drivers whose rows the registry is explored with
RegistryDrivers == {2, 3}

\* The button "driver_online" (handlers.py:62, 1202; registered at
\* bot.py:116).  handlers.py defines no function of that name, bot.py holds
\* only its placeholder; the toggle is taken from the entity description of
\* the driver: the flag is set for a verified driver and for no other.
driver_online(d) ==
    /\ BeginCall(d)
    /\ IF d \in DOMAIN drivers /\ drivers[d].verified = 1
       THEN /\ drivers' = [drivers EXCEPT ![d].online_status = 1]
            /\ last' = "driver_online"
       ELSE /\ last' = "driver_not_verified"
            /\ UNCHANGED drivers
    /\ UNCHANGED <<trips, users, user_data, pc, loc, accept_shown, bot, menus, offers, now, blocked, undelivered, quote, reviews, conv>>

\* The button "driver_offline" (handlers.py:62; registered at bot.py:117),
\* taken from the entity description like driver_online.
driver_offline(d) ==
    /\ BeginCall(d)
    /\ IF d \in DOMAIN drivers
       THEN /\ drivers' = [drivers EXCEPT ![d].online_status = 0]
            /\ last' = "driver_offline"
       ELSE /\ last' = "driver_not_verified"
            /\ UNCHANGED drivers
    /\ UNCHANGED <<trips, users, user_data, pc, loc, accept_shown, bot, menus, offers, now, blocked, undelivered, quote, reviews, conv>>

\* the registry after two applications: driver 2 is pending, driver 3 has
\* been verified by admin 4, and both are offline as driver_experience
\* inserted them
InitRegistry ==
    /\ trips = <<>>
    /\ users = [u \in Users |-> UserRow(u \in {1, 3}, u \in {2, 3})]
    /\ drivers = (2 :> DriverRow(0, 0)) @@ (3 :> DriverRow(1, 0))
    /\ user_data = [u \in Accounts |-> EmptySession]
    /\ pc = [u \in Accounts |-> "idle"]
    /\ loc = [u \in Accounts |-> NoLoc]
    /\ last = NoReply
    /\ accept_shown = {}
    /\ menus = {}
    /\ bot = Unloaded
    /\ offers = {}
    /\ now = 0
    /\ calls = 0
    /\ blocked = {}
    /\ undelivered = {}
    /\ quote = NoQuote
    /\ reviews = <<>>
    /\ conv = [u \in Accounts |-> NoConversation]

\* the drivers toggle their availability; the admins press the two buttons
\* of the message notify_admins_about_new_driver sent them for each driver
\* (handlers.py:1060-1065), which stay under that message after a decision
NextRegistry ==
    \/ \E d \in RegistryDrivers : driver_online(d)
    \/ \E d \in RegistryDrivers : driver_offline(d)
    \/ \E a \in AdminCallers, d \in RegistryDrivers : admin_verify_driver(a, d)
    \/ \E a \in AdminCallers, d \in RegistryDrivers : admin_reject_driver(a, d)

SpecRegistry == InitRegistry /\ [][NextRegistry]_vars

\* ------------------------------------------------------------------- flows
\* A message text is the sequence of its characters.
Digits == {"0", "1", "2", "3", "4", "5", "6", "7", "8", "9"}

DigitValue ==
    ("0" :> 0) @@ ("1" :> 1) @@ ("2" :> 2) @@ ("3" :> 3) @@ ("4" :> 4)
      @@ ("5" :> 5) @@ ("6" :> 6) @@ ("7" :> 7) @@ ("8" :> 8) @@ ("9" :> 9)

\* the characters [\x00-\x1f\x7f-\x9f] among those of the texts below
ControlChars == {"\t"}

\* the characters [\s\-\(\)] among those of the texts below
PhonePunctuation == {" ", "\t", "-", "(", ")"}

UpperOf == ("a" :> "A") @@ ("b" :> "B") @@ ("c" :> "C") @@ ("v" :> "V")

\* the texts the users send: a first name and a surname, the same two with a
\* tabulator between them, one word of two letters, a plate in small
\* letters, two numbers of years, a phone number, and a phone number that
\* lacks a digit
NameText == <<"I", "v", " ", "P">>
TabbedText == <<"I", "\t", "P">>
ShortText == <<"a", "b">>
PlateText == <<"a", "1", "2", "3", "b", "c">>
YearsText == <<"5">>
TooManyYears == <<"7", "1">>
PhoneText == <<"8", "-", "9", "9", "9", "1", "2", "3", "4", "5", "6", "7">>
ShortPhoneText == <<"8", "9", "9", "9", "1", "2", "3", "4", "5", "6">>

Texts ==
    {NameText, TabbedText, ShortText, PlateText, YearsText, TooManyYears,
     PhoneText, ShortPhoneText}

\* utils.sanitize_input: the control characters are removed
sanitize_input(text) == SelectSeq(text, LAMBDA c : c \notin ControlChars)

\* len(text.split()): the words are the maximal runs without white space
WordCount(text) ==
    Cardinality({i \in DOMAIN text :
        /\ text[i] \notin {" ", "\t"}
        /\ (i = 1 \/ text[i - 1] \in {" ", "\t"})})

\* str.upper
Upper(text) ==
    [i \in DOMAIN text |->
        IF text[i] \in DOMAIN UpperOf THEN UpperOf[text[i]] ELSE text[i]]

\* the longest experience driver_experience takes, in years
MaxYears == 70

\* The value of a sequence of decimal digits.  Python's int has no largest
\* value; here every value above MaxYears is kept as MaxYears + 1, which
\* driver_experience turns down like the value itself.
RECURSIVE DecimalValue(_)
DecimalValue(text) ==
    IF text = <<>> THEN 0
    ELSE LET value == 10 * DecimalValue(SubSeq(text, 1, Len(text) - 1))
                        + DigitValue[text[Len(text)]]
         IN  IF value > MaxYears THEN MaxYears + 1 ELSE value

\* int(text) for the texts above, none of which has a sign or white space
\* around its digits: the number, or Null where int raises ValueError
ParseInt(text) ==
    IF text # <<>> /\ \A i \in DOMAIN text : text[i] \in Digits
    THEN DecimalValue(text) ELSE Null

\* a check of the first characters alone
LoosePhoneCheck(phone) ==
    LET cleaned == SelectSeq(phone, LAMBDA c : c \notin PhonePunctuation)
    IN  /\ cleaned # <<>>
        /\ cleaned[1] \in {"+", "8"}
        /\ \A i \in 2..Len(cleaned) : cleaned[i] \in Digits

\* utils.validate_phone: spaces, dashes and brackets are removed and the
\* rest is matched against ^(\+7|8)[0-9]{10}$
validate_phone(phone) ==
    LET cleaned == SelectSeq(phone, LAMBDA c : c \notin PhonePunctuation)
        digits(from) == \A i \in from..Len(cleaned) : cleaned[i] \in Digits
    IN  \/ /\ Len(cleaned) = 12
           /\ cleaned[1] = "+" /\ cleaned[2] = "7" /\ digits(3)
        \/ /\ Len(cleaned) = 11
           /\ cleaned[1] = "8" /\ digits(2)

\* the users who go through the flows: passenger 1, who has not applied, and
\* user 2, whose application is pending
FlowUsers == {1, 2}

\* handlers.become_driver_start: the application starts unless the user has
\* a row in table drivers
become_driver_start(u) ==
    /\ IF get_driver(u) # <<>>
       THEN /\ last' = "already_applied"
            /\ UNCHANGED conv
       ELSE /\ last' = "driver_terms"
            /\ conv' = Returned(u, "driver", "DRIVER_FULL_NAME")
    /\ UNCHANGED <<trips, users, drivers, user_data, pc, loc, accept_shown, bot, menus, offers, now, calls, blocked, undelivered, quote, reviews>>

\* handlers.driver_full_name, called with a text message
driver_full_name(u, text) ==
    LET full_name == sanitize_input(text)
    IN  /\ IF WordCount(full_name) < 2
           THEN /\ last' = "two_words_needed"
                /\ conv' = Returned(u, "driver", "DRIVER_FULL_NAME")
                /\ UNCHANGED user_data
           ELSE /\ user_data' =
                      [user_data EXCEPT ![u].driver_full_name = full_name]
                /\ last' = "name_saved"
                /\ conv' = Returned(u, "driver", "DRIVER_CAR_MODEL")
        /\ UNCHANGED <<trips, users, drivers, pc, loc, accept_shown, bot, menus, offers, now, calls, blocked, undelivered, quote, reviews>>

\* handlers.driver_car_model
driver_car_model(u, text) ==
    LET car_model == sanitize_input(text)
    IN  /\ IF Len(car_model) < 3
           THEN /\ last' = "model_too_short"
                /\ conv' = Returned(u, "driver", "DRIVER_CAR_MODEL")
                /\ UNCHANGED user_data
           ELSE /\ user_data' =
                      [user_data EXCEPT ![u].driver_car_model = car_model]
                /\ last' = "model_saved"
                /\ conv' = Returned(u, "driver", "DRIVER_CAR_NUMBER")
        /\ UNCHANGED <<trips, users, drivers, pc, loc, accept_shown, bot, menus, offers, now, calls, blocked, undelivered, quote, reviews>>

\* handlers.driver_car_number
driver_car_number(u, text) ==
    LET car_number == Upper(sanitize_input(text))
    IN  /\ IF Len(car_number) < 6 \/ Len(car_number) > 9
           THEN /\ last' = "bad_plate"
                /\ conv' = Returned(u, "driver", "DRIVER_CAR_NUMBER")
                /\ UNCHANGED user_data
           ELSE /\ user_data' =
                      [user_data EXCEPT ![u].driver_car_number = car_number]
                /\ last' = "plate_saved"
                /\ conv' = Returned(u, "driver", "DRIVER_EXPERIENCE")
        /\ UNCHANGED <<trips, users, drivers, pc, loc, accept_shown, bot, menus, offers, now, calls, blocked, undelivered, quote, reviews>>

\* INSERT INTO drivers of driver_experience, sent through Database.execute:
\* the row is stored unless the statement fails, and a failure (a second row
\* for the primary key, no row of users for the foreign key, a locked or
\* unwritable database file) is logged and not passed on to the caller
InsertDriver(u, storage_ok) ==
    IF storage_ok /\ u \notin DOMAIN drivers /\ u \in DOMAIN users
    THEN drivers @@ (u :> DriverRow(0, 0))
    ELSE drivers

\* UPDATE users SET role = 'driver' of driver_experience, sent through
\* Database.execute in a connection of its own
SetRoleDriver(u, storage_ok) ==
    IF storage_ok /\ u \in DOMAIN users
    THEN [users EXCEPT ![u].role = "driver"]
    ELSE users

\* handlers.driver_experience.  A number of years from 0 to 70 is asked for
\* again otherwise.  Then the fields are read from the session (KeyError if
\* one is not there), the driver is inserted, the role is set, the session
\* is cleared and the user is told that the application has been sent.  The
\* last statement, "return ConversationHandler.END" (handlers.py:1050),
\* raises NameError as in review_comment.
driver_experience(u, text, insert_ok, update_ok) ==
    LET experience == ParseInt(text)
        session == user_data[u]
    IN  /\ IF experience = Null \/ experience > MaxYears
           THEN /\ last' = "years_needed"
                /\ conv' = Returned(u, "driver", "DRIVER_EXPERIENCE")
                /\ UNCHANGED <<drivers, users, user_data>>
           ELSE IF <<>> \in {session.driver_full_name, session.driver_car_model,
                             session.driver_car_number}
           THEN /\ last' = "error"
                /\ UNCHANGED <<drivers, users, user_data, conv>>
           ELSE /\ drivers' = InsertDriver(u, insert_ok)
                /\ users' = SetRoleDriver(u, update_ok)
                /\ user_data' = [user_data EXCEPT ![u] = EmptySession]
                /\ last' = "application_sent"
                /\ UNCHANGED conv
        /\ UNCHANGED <<trips, pc, loc, accept_shown, bot, menus, offers, now, calls, blocked, undelivered, quote, reviews>>

\* handlers.set_phone_start
set_phone_start(u) ==
    /\ last' = "phone_asked"
    /\ conv' = Returned(u, "phone", "PHONE_INPUT")
    /\ UNCHANGED <<trips, users, drivers, user_data, pc, loc, accept_shown, bot, menus, offers, now, calls, blocked, undelivered, quote, reviews>>

\* handlers.set_phone_complete: a text that is no phone number is asked for
\* again; a phone number is stored (encrypted, with the cipher of utils) and
\* the user is told so.  The last statement, "return ConversationHandler.END"
\* (handlers.py:305), raises NameError as in review_comment.
set_phone_complete(u, text) ==
    /\ IF ~validate_phone(text)
       THEN /\ last' = "bad_phone"
            /\ conv' = Returned(u, "phone", "PHONE_INPUT")
            /\ UNCHANGED users
       ELSE /\ users' = IF u \in DOMAIN users
                        THEN [users EXCEPT ![u].phone = TRUE] ELSE users
            /\ last' = "phone_saved"
            /\ UNCHANGED conv
    /\ UNCHANGED <<trips, drivers, user_data, pc, loc, accept_shown, bot, menus, offers, now, calls, blocked, undelivered, quote, reviews>>

\* handlers.start for a user who has a row in table users: last_active is
\* updated and a menu is shown.  Nothing is returned and the session is not
\* touched.
start(u) ==
    /\ u \in DOMAIN users
    /\ last' = "main_menu"
    /\ UNCHANGED <<trips, users, drivers, user_data, pc, loc, accept_shown, bot, menus, offers, now, calls, blocked, undelivered, quote, reviews, conv>>

\* handlers.handle_message: a user whose session is empty is pointed to the
\* menu, any other text is dropped
handle_message(u) ==
    /\ last' = IF user_data[u] = EmptySession THEN "use_menu" ELSE NoReply
    /\ UNCHANGED <<trips, users, drivers, user_data, pc, loc, accept_shown, bot, menus, offers, now, calls, blocked, undelivered, quote, reviews, conv>>

\* The handler a text message of u goes to.  The handlers are asked in the
\* order of their registration (bot.py:145-179): the driver application if
\* the user is at one of its steps, then the phone input, then the comment
\* of a review, then handle_message.
TextHandler(u) ==
    IF conv[u].driver # "none" THEN conv[u].driver
    ELSE IF conv[u].phone # "none" THEN conv[u].phone
    ELSE IF conv[u].review = "REVIEW_COMMENT" THEN "REVIEW_COMMENT"
    ELSE "handle_message"

\* the button "become_driver" as the entry point of the driver application
become_driver_pressed(u) ==
    /\ conv[u].driver = "none"
    /\ become_driver_start(u)

\* the button "set_phone" as the entry point of the phone input
set_phone_pressed(u) ==
    /\ conv[u].phone = "none"
    /\ set_phone_start(u)

\* a text message, taken by the step the user is at ...
name_sent(u, text) ==
    /\ TextHandler(u) = "DRIVER_FULL_NAME"
    /\ driver_full_name(u, text)

model_sent(u, text) ==
    /\ TextHandler(u) = "DRIVER_CAR_MODEL"
    /\ driver_car_model(u, text)

plate_sent(u, text) ==
    /\ TextHandler(u) = "DRIVER_CAR_NUMBER"
    /\ driver_car_number(u, text)

years_sent(u, text) ==
    /\ TextHandler(u) = "DRIVER_EXPERIENCE"
    /\ \E insert_ok, update_ok \in BOOLEAN :
         driver_experience(u, text, insert_ok, update_ok)

phone_sent(u, text) ==
    /\ TextHandler(u) = "PHONE_INPUT"
    /\ set_phone_complete(u, text)

\* ... or by handle_message if the user is at none
other_text_sent(u) ==
    /\ TextHandler(u) = "handle_message"
    /\ handle_message(u)

\* the command /start, which CommandHandler("start", start) takes, as the
\* first handler of the Application (bot.py:87) or as the fallback of a
\* conversation (bot.py:153, 163, 174)
start_sent(u) == start(u)

\* a store as in Init, nobody in a conversation
InitFlows ==
    /\ trips = <<>>
    /\ users = [u \in Users |-> UserRow(u \in {1, 3}, u \in {2, 3})]
    /\ drivers = (2 :> DriverRow(0, 0)) @@ (3 :> DriverRow(1, 1))
    /\ user_data = [u \in Accounts |-> EmptySession]
    /\ pc = [u \in Accounts |-> "idle"]
    /\ loc = [u \in Accounts |-> NoLoc]
    /\ last = NoReply
    /\ accept_shown = {}
    /\ menus = {}
    /\ bot = Unloaded
    /\ offers = {}
    /\ now = 0
    /\ calls = 0
    /\ blocked = {}
    /\ undelivered = {}
    /\ quote = NoQuote
    /\ reviews = <<>>
    /\ conv = [u \in Accounts |-> NoConversation]

\* The conversations of the driver application and of the phone input as
\* the two ConversationHandlers declare them.  (In the Application the
\* buttons "become_driver" and "set_phone" are taken by the handlers
\* registered before them, bot.py:96 and 115, see Route.)
NextFlows ==
    \/ \E u \in FlowUsers : become_driver_pressed(u)
    \/ \E u \in FlowUsers : set_phone_pressed(u)
    \/ \E u \in FlowUsers, text \in Texts : name_sent(u, text)
    \/ \E u \in FlowUsers, text \in Texts : model_sent(u, text)
    \/ \E u \in FlowUsers, text \in Texts : plate_sent(u, text)
    \/ \E u \in FlowUsers, text \in Texts : years_sent(u, text)
    \/ \E u \in FlowUsers, text \in Texts : phone_sent(u, text)
    \/ \E u \in FlowUsers : other_text_sent(u)
    \/ \E u \in FlowUsers : start_sent(u)

SpecFlows == InitFlows /\ [][NextFlows]_vars

\* ------------------------------------------------- the reviews, as routed
\* what leave_review keeps as trip id when the rest of the callback data is
\* no number: a text that is the id of no trip (the ids start at 1)
NotATripId == 0

\* the buttons of the review: "review_<id>" under the message of
\* complete_trip (handlers.py:756-759) and "review_rating_<i>" under the
\* message of leave_review (handlers.py:802-808)
ReviewButtons ==
    {<<"review", t>> : t \in TripIds}
      \cup {<<"review", "rating", r>> : r \in ReviewRatings}

\* the users who press them: the passenger and the driver of the trip, and
\* a user who is neither
RoutedReviewers == {1, 2, 3}

\* A press of one of the buttons, taken by the first registration whose
\* pattern matches it: "^review_.*$" (bot.py:111) for both kinds, so that
\* leave_review runs and takes the data without "review_" as the trip id.
review_button_pressed(u, data) ==
    /\ Route(data) = "leave_review"
    /\ LET key == StripPrefix(data, <<"review">>) IN
       leave_review(u, IF Len(key) = 1 /\ key[1] \in TripIds
                       THEN key[1] ELSE NotATripId, FALSE)

\* the reviews through the registrations of bot.main: the buttons are
\* pressed and texts are sent.  No press enters the conversation of the
\* reviews, so that every text goes to handle_message (see TextHandler).
NextRoutedReview ==
    \/ \E u \in RoutedReviewers, data \in ReviewButtons :
            review_button_pressed(u, data)
    \/ \E u \in RoutedReviewers : other_text_sent(u)

SpecRoutedReview == InitReview /\ [][NextRoutedReview]_vars

\* ------------------------------------------------------------------ claims
Parties(t) == {trips[t].passenger_id, trips[t].driver_id} \ {Null}

StatusIs(t, st) == TripExists(t) /\ trips[t].status = st

Rank(st) ==
    CASE st = "searching" -> 0
      [] st = "accepted" -> 1
      [] st = "started" -> 2
      [] st = "completed" -> 3
      [] OTHER -> 4

\* the verified drivers who were shown "order accepted" for trip t
VerifiedWinners(t) ==
    {u \in DOMAIN drivers : drivers[u].verified = 1 /\ <<u, t>> \in accept_shown}

\* C1: of the accept_trip calls made on one searching trip by distinct
\* verified drivers, exactly one is shown "order accepted"; the others are
\* told the order is no longer available.
C1_OneAcceptWins ==
    \A t \in TripIds : Cardinality(VerifiedWinners(t)) <= 1

\* C2: the write of accept_trip is conditional on the trip still being in
\* searching: an accept that reaches its write when the trip has left
\* searching changes nothing of the trip.
C2_AcceptWriteConditional ==
    [][\A u \in Callers :
         (accept_trip_update(u) /\ ~StatusIs(loc[u].trip_id, "searching"))
            => trips' = trips]_vars

\* C3: accept_trip by a user without a driver record, or whose driver record
\* is pending or rejected, is refused at the verification check.
C3_UnverifiedRefused ==
    [][\A u \in Callers :
         (accept_trip_get_driver(u)
            /\ ~(u \in DOMAIN drivers /\ drivers[u].verified = 1))
            => (pc'[u] = "idle" /\ last' = "not_allowed")]_vars

\* C4: the status of a trip never moves back along
\* searching -> accepted -> started -> completed.
C4_StatusForwardOnly ==
    [][\A t \in DOMAIN trips : Rank(trips'[t].status) >= Rank(trips[t].status)]_vars

\* C5: accept_trip on a trip not in searching, start_trip on a trip not in
\* accepted and complete_trip on a trip not in started (an unknown trip id
\* included) show the caller a refusal and change no trip and no user row.
C5_RefusedTransitionChangesNothing ==
    [][\A u \in Callers :
        /\ \A t \in TripIds :
            /\ (~StatusIs(t, "searching") /\ accept_trip(u, t))
                  => /\ last' = "unavailable"
                     /\ pc'[u] = "idle" /\ trips' = trips /\ users' = users
            /\ (~StatusIs(t, "accepted") /\ start_trip(u, t))
                  => /\ last' = "cannot_start"
                     /\ pc'[u] = "idle" /\ trips' = trips /\ users' = users
            /\ (~StatusIs(t, "started") /\ complete_trip(u, t))
                  => /\ pc'[u] = "complete_recheck"
                     /\ trips' = trips /\ users' = users
        /\ (pc[u] = "complete_recheck" /\ pc'[u] # pc[u])
              => /\ last' \in {"already_completed", "cannot_complete"}
                 /\ pc'[u] = "idle" /\ trips' = trips /\ users' = users]_vars

\* a refusal was just shown for an existing trip that is past searching
C5_Witness ==
    /\ last \in {"unavailable", "already_completed"}
    /\ TripExists(1) /\ trips[1].status = "completed"
    /\ users[1].trips_count = 1

\* C6: for every trip the driver id is set exactly when the status is
\* accepted, started or completed.
C6_DriverIffClaimed ==
    \A t \in DOMAIN trips :
        (trips[t].driver_id # Null)
            <=> (trips[t].status \in {"accepted", "started", "completed"})

C6_Witness ==
    /\ TripExists(1) /\ trips[1].status = "started" /\ trips[1].driver_id = 2

\* C7: for every trip the final price is set exactly when the status is
\* completed, and then equals the price plus the stored waiting charge.
C7_FinalPriceIffCompleted ==
    \A t \in DOMAIN trips :
        /\ (trips[t].final_price # Null) <=> (trips[t].status = "completed")
        /\ (trips[t].final_price # Null)
              => trips[t].final_price = trips[t].price + trips[t].waiting_charge

\* C8: once a trip is completed no step changes its row.
C8_CompletedImmutable ==
    [][\A t \in DOMAIN trips :
         trips[t].status = "completed" => trips'[t] = trips[t]]_vars

\* C9: start_trip moves a trip to started only for a caller who is the
\* trip's driver or passenger.
C9_StartOnlyByParty ==
    [][\A u \in Callers :
         (start_trip_update(u) /\ trips' # trips) => u \in Parties(loc[u].trip_id)]_vars

\* C10: a user who is neither passenger nor driver of a trip does not change
\* its row through complete_trip or stop_waiting.
C10_StrangerChangesNothing ==
    [][\A u \in Callers : \A t \in DOMAIN trips :
         (u \notin Parties(t))
            => /\ (complete_trip_update(u) /\ loc[u].trip_id = t) => trips'[t] = trips[t]
               /\ stop_waiting(u, t) => trips'[t] = trips[t]]_vars

\* the trips completed so far in which u is passenger or driver; the final
\* price is written by the completing UPDATE and by no other statement, so
\* it marks a completed trip even after a late write of another handler
\* has put the status back
CompletedTripsOf(u) ==
    {t \in DOMAIN trips : trips[t].final_price # Null /\ u \in Parties(t)}

\* no complete_trip call is between its UPDATE of the trip and its last
\* UPDATE of the counters
NoCompleteUnderWay ==
    \A u \in Users :
        pc[u] \notin {"complete_update", "complete_count_passenger",
                      "complete_count_driver"}

\* every trip was written by at most one accept_trip call
AcceptedAtMostOnce ==
    \A t \in TripIds : Cardinality({u \in Users : <<u, t>> \in accept_shown}) <= 1

\* C11: whenever no complete_trip call is under way, each user's trips_count
\* equals the number of completed trips in which that user is passenger or
\* driver, duplicated completes of one trip included (trips written by two
\* accepts are left aside: they are the subject of C2).
C11_TripsCountMatchesCompleted ==
    (NoCompleteUnderWay /\ AcceptedAtMostOnce)
        => \A u \in Users : users[u].trips_count = Cardinality(CompletedTripsOf(u))

\* C12: the press of the cancel button on a trip in searching, accepted or
\* started moves the trip to cancelled and records who cancelled it.
C12_CancelButtonCancels ==
    [][\A u \in Riders : \A t \in DOMAIN trips :
         (cancel_trip_pressed(u, t)
            /\ trips[t].status \in {"searching", "accepted", "started"})
            => /\ trips'[t].status = "cancelled"
               /\ trips'[t].cancelled_by = u]_vars

\* C13: trip_confirm by a user with no phone on file, or with no user record,
\* returns at once: no trip is created and no offer sent.  By a user with a
\* phone and a selected origin it goes on to the INSERT, which adds exactly
\* one trip: searching, that user as passenger, no driver, and the price of
\* calculate_price for the selected route.
C13_TripConfirmContract ==
    [][\A u \in OrderRiders :
        LET has_phone == u \in DOMAIN users /\ users[u].phone IN
        /\ \A c \in Cities :
             /\ (trip_confirm(u, c) /\ ~has_phone)
                   => /\ pc'[u] = "idle"
                      /\ trips' = trips /\ offers' = offers
             /\ (trip_confirm(u, c) /\ has_phone /\ user_data[u].trip_from # "")
                   => pc'[u] = "confirm_insert"
        /\ trip_confirm_insert(u)
              => /\ Len(trips') = Len(trips) + 1
                 /\ SubSeq(trips', 1, Len(trips)) = trips
                 /\ LET new == trips'[Len(trips')] IN
                    /\ new.status = "searching"
                    /\ new.passenger_id = u
                    /\ new.driver_id = Null
                    /\ new.price = calculate_price(user_data[u].trip_from,
                                                   loc[u].to_city, "economy")[1]]_vars

\* a user without a phone has just been refused while the order of the user
\* with a phone is in the store
C13_Witness ==
    /\ last = "need_phone"
    /\ TripExists(1) /\ trips[1].passenger_id = 1 /\ trips[1].status = "searching"

\* C14: the offers of one broadcast go only to drivers whose row is verified
\* and online when the broadcast reads the table, to at most ten of them, all
\* for the trip just created, and no driver has been offered that trip
\* before; pending, rejected and offline drivers get none
C14_OffersOnlyToEligible ==
    [][\A u \in Riders :
         \* the broadcast is the step that ends the call of trip_confirm
         (pc[u] = "confirm_notify" /\ pc'[u] = "idle") =>
           LET t == loc[u].trip_id
               sent == offers' \ offers
           IN  /\ offers \subseteq offers'
               /\ \A o \in sent :
                     /\ o[2] = t
                     /\ o[1] \in DOMAIN drivers
                     /\ drivers[o[1]].verified = 1
                     /\ drivers[o[1]].online_status = 1
               /\ Cardinality(sent) <= 10
               /\ \A o \in offers : o[2] # t]_vars

\* eleven drivers pass the query, ten were offered the trip, and the pending
\* driver who is online was not
C14_Witness ==
    /\ Cardinality({d \in DOMAIN drivers :
            drivers[d].verified = 1 /\ drivers[d].online_status = 1}) = 11
    /\ Cardinality(offers) = 10
    /\ drivers[2].verified = 0 /\ drivers[2].online_status = 1
    /\ \A o \in offers : o[1] # 2

\* no row of table drivers passes the broadcast query
NobodyEligible ==
    \A d \in DOMAIN drivers :
        ~(drivers[d].verified = 1 /\ drivers[d].online_status = 1)

\* C15: a broadcast that finds no verified and online driver sends no offer,
\* no step other than the broadcast of trip_confirm sends one later, and a
\* trip in searching stays there in every step that is not the write of an
\* accept of that trip (passing time changes nothing)
C15_SearchingUntilAccepted ==
    [][/\ \A u \in OrderRiders :
            (notify_drivers_about_trip(u) /\ NobodyEligible) => offers' = offers
       /\ (\A u \in OrderRiders : ~notify_drivers_about_trip(u))
            => offers' = offers
       /\ \A t \in DOMAIN trips :
            trips[t].status = "searching" =>
              \/ trips'[t].status = "searching"
              \/ \E u \in OrderDrivers :
                    accept_trip_update(u) /\ loc[u].trip_id = t]_vars

\* the order was placed while nobody passed the query; time has passed, a
\* driver has become eligible since, and the trip is still searching with no
\* offer sent
C15_Witness ==
    /\ TripExists(1) /\ trips[1].status = "searching"
    /\ pc[trips[1].passenger_id] = "idle"
    /\ offers = {}
    /\ now > 0
    /\ drivers[2].verified = 1 /\ drivers[2].online_status = 1
    /\ drivers[3].online_status = 0

\* C16: every send that failed belongs to a transition that took place and
\* still stands: the trip of a failed "driver found" has a driver and is
\* accepted or further, the trip of a failed "trip started" is started or
\* further, the trip of a failed "trip completed" is completed with its final
\* price; and when an offer failed, every other driver who passes the
\* broadcast query was still sent the offer
C16_FailedSendKeepsTransition ==
    \A f \in undelivered :
        LET kind == f[2]
            t == f[3]
        IN  /\ TripExists(t)
            /\ kind = "driver_found" =>
                  /\ trips[t].status \in {"accepted", "started", "completed"}
                  /\ trips[t].driver_id # Null
            /\ kind = "trip_started" =>
                  trips[t].status \in {"started", "completed"}
            /\ kind = "trip_completed" =>
                  /\ trips[t].status = "completed"
                  /\ trips[t].final_price # Null
            /\ kind = "offer" =>
                  \A d \in DOMAIN drivers :
                      (drivers[d].verified = 1 /\ drivers[d].online_status = 1)
                        => \/ <<d, t>> \in offers
                           \/ <<d, "offer", t>> \in undelivered

\* the offer to driver 12 failed and driver 13 got it; the passenger then
\* blocked the bot, every message to them failed, and the trip is completed
C16_Witness ==
    /\ <<12, "offer", 1>> \in undelivered
    /\ <<13, 1>> \in offers
    /\ <<1, "driver_found", 1>> \in undelivered
    /\ <<1, "trip_started", 1>> \in undelivered
    /\ <<1, "trip_completed", 1>> \in undelivered
    /\ trips[1].status = "completed"
    /\ trips[1].driver_id = 3

\* C17: on the journey through the registered handlers, the press of the
\* stop button six minutes after the timer was started on a started trip
\* records the waiting surcharge 13, and completing the trip then leaves it
\* completed with its driver and final price = base price + surcharge
C17_JourneyCharges ==
    [][\A u \in OrderDrivers : \A t \in DOMAIN trips :
         /\ ( /\ waiting_pressed(u, "stop", t)
              /\ trips[t].status = "started"
              /\ trips[t].driver_id = u
              /\ user_data[u].waiting_start[t] # Null
              /\ ElapsedMinutes(user_data[u].waiting_start[t], now) = 6 )
            => /\ trips'[t].waiting_minutes = 6
               /\ trips'[t].waiting_charge = 13
         /\ (complete_trip_update(u) /\ loc[u].trip_id = t)
            => /\ trips'[t].status = "completed"
               /\ trips'[t].driver_id = trips[t].driver_id
               /\ trips'[t].final_price = trips[t].price + trips[t].waiting_charge]_vars

\* C18: calculate_waiting_charge returns 0 for 0 minutes, 0 for 2, 3 for 3,
\* 9 for 5, 17 for 7 and 32 for 10
C18_WaitingChargeValues ==
    (quote.call # <<>> /\ quote.call[1] = "calculate_waiting_charge"
        /\ quote.result # <<>>)
      => LET minutes == quote.call[2]
             charge == quote.result[1]
         IN  /\ minutes = 0 => charge = 0
             /\ minutes = 2 => charge = 0
             /\ minutes = 3 => charge = 3
             /\ minutes = 5 => charge = 9
             /\ minutes = 7 => charge = 17
             /\ minutes = 10 => charge = 32

\* the charge for ten minutes has been computed
C18_Witness ==
    /\ quote.call = <<"calculate_waiting_charge", 10>>
    /\ quote.result # <<>>
    /\ quote.result[1] = 32

\* C19: one more minute of waiting never lowers the charge, and raises it by
\* the rate of the tier the added minute falls in: 0 up to minute 2, 3 for
\* minutes 3-5, 4 for minutes 6-7, 5 beyond 7, also across the boundaries
C19_WaitingChargeStepsByTierRate ==
    (quote.call # <<>> /\ quote.call[1] = "calculate_waiting_charge"
        /\ quote.result # <<>>)
      => LET added == quote.call[2] + 1
             rate == IF added <= 2 THEN 0
                     ELSE IF added <= 5 THEN 3
                     ELSE IF added <= 7 THEN 4
                     ELSE 5
         IN  /\ quote.result[2] >= quote.result[1]
             /\ quote.result[2] - quote.result[1] = rate

\* the step over the boundary at 7 minutes: 17 for seven minutes, 22 for eight
C19_Witness ==
    /\ quote.call = <<"calculate_waiting_charge", 7>>
    /\ quote.result = <<17, 22>>

\* C20: for two cities with an entry of the distance table in either order
\* and any class, calculate_price gives the same price and distance for the
\* route and for the route the other way round, and the same again when it
\* is called once more with the same arguments
C20_PriceSymmetric ==
    (quote.call # <<>> /\ quote.call[1] = "calculate_price"
        /\ quote.result # <<>>)
      => LET a == quote.call[2]
             b == quote.call[3]
         IN  (<<a, b>> \in DOMAIN DISTANCES \/ <<b, a>> \in DOMAIN DISTANCES)
               => /\ quote.result[2] = quote.result[1]
                  /\ quote.result[3] = quote.result[1]

\* the price from B to A, a route the table holds as A to B only, has been
\* computed with the distance of the entry
C20_Witness ==
    /\ quote.call = <<"calculate_price", "B", "A", "comfort">>
    /\ quote.result # <<>>
    /\ quote.result[1] = <<1550, 100>>
    /\ quote.result[2] = <<1550, 100>>

\* C21: the price of calculate_price is never below the minimum of the
\* class; the distance is the table entry of the route in either order, 400
\* when there is none; a price above the minimum is a multiple of 50 at most
\* 25 away from 60 + distance * rate, and the minimum is returned only when
\* that multiple does not exceed it
C21_PriceRoundedAndFloored ==
    (quote.call # <<>> /\ quote.call[1] = "calculate_price"
        /\ quote.result # <<>>)
      => LET a == quote.call[2]
             b == quote.call[3]
             c == quote.call[4]
             price == quote.result[1][1]
             distance == quote.result[1][2]
             entry == IF <<a, b>> \in DOMAIN DISTANCES THEN DISTANCES[<<a, b>>]
                      ELSE IF <<b, a>> \in DOMAIN DISTANCES THEN DISTANCES[<<b, a>>]
                      ELSE 400
             class == IF c \in DOMAIN CAR_CLASSES THEN CAR_CLASSES[c]
                      ELSE CAR_CLASSES["economy"]
             exact == 60 + entry * class.base_price
         IN  /\ distance = entry
             /\ price >= class.min_price
             /\ price > class.min_price =>
                   /\ price % 50 = 0
                   /\ price - exact <= 25 /\ exact - price <= 25
             /\ price = class.min_price => exact - 25 <= class.min_price

\* a price above the minimum that had to be rounded up: C to D in business
\* class, 60 + 251 * 20 = 5080
C21_Witness ==
    /\ quote.call = <<"calculate_price", "C", "D", "business">>
    /\ quote.result # <<>>
    /\ quote.result[1] = <<5100, 251>>

\* the ratings of all users
Ratings == [v \in DOMAIN users |-> users[v].rating]

\* C22: a review sent for a trip that is not completed is rejected: table
\* reviews and every user's rating stay as they were
C22_ReviewNeedsCompletedTrip ==
    [][\A u \in Reviewers :
         LET t == user_data[u].review_trip IN
         (review_comment(u) /\ user_data[u].review_rating # Null
             /\ TripExists(t) /\ trips[t].status # "completed")
           => /\ reviews' = reviews
              /\ Ratings' = Ratings]_vars

\* C23: a review of a completed trip sent by a user who is neither its
\* passenger nor its driver is rejected: table reviews and every user's
\* rating stay as they were
C23_ReviewNeedsParty ==
    [][\A u \in Reviewers :
         LET t == user_data[u].review_trip IN
         (review_comment(u) /\ user_data[u].review_rating # Null
             /\ TripExists(t) /\ trips[t].status = "completed"
             /\ u \notin Parties(t))
           => /\ reviews' = reviews
              /\ Ratings' = Ratings]_vars

\* C24: table reviews never holds two rows of the same rater for the same
\* trip (here: of a party to a completed trip)
C24_OneReviewPerTripAndRater ==
    \A i, j \in DOMAIN reviews :
        ( /\ reviews[i].trip_id = reviews[j].trip_id
          /\ reviews[i].from_user = reviews[j].from_user
          /\ trips[reviews[i].trip_id].status = "completed"
          /\ reviews[i].from_user \in Parties(reviews[i].trip_id) )
        => i = j

ApplicationFields(session) ==
    <<session.driver_full_name, session.driver_car_model,
      session.driver_car_number>>

\* C27: /start sent at any step of a flow aborts the flow: the user is at no
\* step of any conversation afterwards, the fields entered so far are gone
\* from the session, and nothing of the flow has been written to the tables.
C27_StartAbortsFlow ==
    [][\A u \in FlowUsers :
        (start_sent(u) /\ conv[u] # NoConversation)
          => /\ conv'[u] = NoConversation
             /\ user_data'[u] = EmptySession
             /\ drivers' = drivers /\ users' = users /\ reviews' = reviews]_vars

\* C28: the driver application takes the full name, the vehicle model, the
\* plate and the experience in this order; an input that is not valid leaves
\* the step, the stored fields and table drivers as they are, and a valid
\* input is stored and takes the user exactly one step further (out of the
\* conversation after the experience).
C28_OnboardingStepByStep ==
    [][\A u \in FlowUsers, text \in Texts :
        LET clean == sanitize_input(text)
            fields == ApplicationFields(user_data[u])
            fields_after == ApplicationFields(user_data'[u])
            kept == /\ conv'[u] = conv[u]
                    /\ user_data'[u] = user_data[u]
                    /\ drivers' = drivers
        IN  /\ name_sent(u, text) =>
                IF WordCount(clean) >= 2
                THEN /\ fields_after = <<clean, fields[2], fields[3]>>
                     /\ conv'[u].driver = "DRIVER_CAR_MODEL"
                     /\ drivers' = drivers
                ELSE kept
            /\ model_sent(u, text) =>
                IF Len(clean) >= 3
                THEN /\ fields_after = <<fields[1], clean, fields[3]>>
                     /\ conv'[u].driver = "DRIVER_CAR_NUMBER"
                     /\ drivers' = drivers
                ELSE kept
            /\ plate_sent(u, text) =>
                IF Len(clean) \in 6..9
                THEN /\ fields_after = <<fields[1], fields[2], Upper(clean)>>
                     /\ conv'[u].driver = "DRIVER_EXPERIENCE"
                     /\ drivers' = drivers
                ELSE kept
            /\ years_sent(u, text) =>
                IF ParseInt(text) \in 0..70
                THEN conv'[u].driver = "none"
                ELSE kept]_vars

\* C29: the last step of the driver application writes the driver (pending)
\* and the role together or not at all; when the driver is not inserted the
\* role is left alone and the user is not told that the application was sent.
C29_ApplicationStoredAsOne ==
    [][\A u \in FlowUsers, text \in Texts :
        (/\ years_sent(u, text)
         /\ ParseInt(text) \in 0..70
         /\ \A k \in 1..3 : ApplicationFields(user_data[u])[k] # <<>>)
          => \/ /\ u \notin DOMAIN drivers /\ u \in DOMAIN drivers'
                /\ drivers'[u].verified = 0
                /\ users'[u].role = "driver"
             \/ /\ drivers' = drivers /\ users' = users
                /\ last' # "application_sent"]_vars

\* C30: once a flow has done its terminal action (the phone is saved, the
\* application is sent) the user is in that conversation no more and the
\* session holds none of its fields, so that the next text is not taken by
\* the flow's last step.
C30_FlowEndsAfterTerminalAction ==
    [][\A u \in FlowUsers, text \in Texts :
        /\ (phone_sent(u, text) /\ last' = "phone_saved")
              => conv'[u].phone = "none"
        /\ (years_sent(u, text) /\ last' = "application_sent")
              => /\ conv'[u].driver = "none"
                 /\ ApplicationFields(user_data'[u]) = <<<<>>, <<>>, <<>>>>]_vars

\* the texts that are no phone number of the two accepted forms
MalformedPhones == Texts \ {PhoneText}

\* C31: a string that is no phone number is turned down by set_phone_complete
\* before anything is stored: the user is asked again, stays at the phone
\* step, and table users is as it was.
C31_MalformedPhoneNotStored ==
    [][\A u \in FlowUsers, text \in MalformedPhones :
        phone_sent(u, text)
          => /\ users' = users
             /\ conv'[u].phone = "PHONE_INPUT"
             /\ last' = "bad_phone"]_vars

C31_Witness ==
    \E u \in FlowUsers :
        /\ conv[u].phone = "PHONE_INPUT" /\ conv[u].driver = "none"
        /\ last = "bad_phone"
        /\ ~users[u].phone

\* C32: the verification state of a driver changes in no step but a
\* verification or a rejection by one of ADMINS; the same two calls by
\* anybody else are denied and leave table drivers as it was.
C32_VerificationByAdminsOnly ==
    [][/\ \A d \in DOMAIN drivers :
            (d \in DOMAIN drivers' /\ drivers'[d].verified # drivers[d].verified)
              => \E a \in ADMINS :
                    \/ admin_verify_driver(a, d)
                    \/ admin_reject_driver(a, d)
       /\ \A a \in AdminCallers \ ADMINS, d \in RegistryDrivers :
            (admin_verify_driver(a, d) \/ admin_reject_driver(a, d))
              => /\ drivers' = drivers
                 /\ last' = "access_denied"]_vars

C32_Witness ==
    /\ last = "access_denied"
    /\ drivers[2].verified = -1 /\ drivers[2].verified_by = 4

\* C33: through the registrations of bot.main a party of a completed trip
\* taps the review button, then a rating, then sends a comment: the tap of
\* the rating puts the rating next to the trip id in the session, and the
\* comment stores exactly one review of that trip with that rating by that
\* user, recomputes the rating of the other party and empties the two
\* session fields.
C33_RoutedReviewIsStored ==
    [][\A u \in RoutedReviewers, t \in TripIds :
        (/\ user_data[u].review_trip = t
         /\ StatusIs(t, "completed") /\ u \in Parties(t))
          => /\ \A r \in ReviewRatings :
                    review_button_pressed(u, <<"review", "rating", r>>)
                      => /\ user_data'[u].review_trip = t
                         /\ user_data'[u].review_rating = r
             /\ (other_text_sent(u) /\ user_data[u].review_rating # Null)
                      => /\ Len(reviews') = Len(reviews) + 1
                         /\ reviews'[Len(reviews')].trip_id = t
                         /\ reviews'[Len(reviews')].from_user = u
                         /\ reviews'[Len(reviews')].rating
                                = user_data[u].review_rating
                         /\ user_data'[u].review_trip = Null
                         /\ user_data'[u].review_rating = Null]_vars

\* C34: the step of trip_confirm that stores a trip leaves the broadcast for
\* that trip to come next, whether or not the passenger could be shown the
\* confirmation, and the offers of the broadcast are for the trip of the
\* call, which is in the store with status searching.
C34_TripCreatedIsBroadcast ==
    [][\A u \in Riders :
        /\ (pc[u] = "confirm_insert" /\ Len(trips') = Len(trips) + 1)
              => /\ pc'[u] = "confirm_notify"
                 /\ loc'[u].trip_id = Len(trips')
        /\ (pc[u] = "confirm_notify" /\ pc'[u] = "idle")
              => /\ StatusIs(loc[u].trip_id, "searching")
                 /\ \A o \in offers' \ offers : o[2] = loc[u].trip_id]_vars

\* ------------------------------------------------ two orders, one driver
\* the ids of the two orders on the desk
DeskTripIds == {1, 2}

\* the users who pressed "confirm" on them: passenger 1, and driver 3, who
\* has a phone on file and orders like any other user
DeskPassengers == <<1, 3>>

\* a store after two orders: both trips are searching and the broadcast of
\* each (handlers.notify_drivers_about_trip) has shown its accept button to
\* driver 3, the only driver who is verified and online
InitTwoOrders ==
    /\ trips = [t \in DeskTripIds |-> NewTrip(DeskPassengers[t], "A", "B")]
    /\ users = [u \in Users |-> UserRow(u \in {1, 3}, u \in {2, 3})]
    /\ drivers = (2 :> DriverRow(0, 0)) @@ (3 :> DriverRow(1, 1))
    /\ user_data = [u \in Accounts |-> EmptySession]
    /\ pc = [u \in Accounts |-> "idle"]
    /\ loc = [u \in Accounts |-> NoLoc]
    /\ last = NoReply
    /\ accept_shown = {}
    /\ menus = {}
    /\ bot = Unloaded
    /\ offers = {<<3, t>> : t \in DeskTripIds}
    /\ now = 0
    /\ calls = 0
    /\ blocked = {}
    /\ undelivered = {}
    /\ quote = NoQuote
    /\ reviews = <<>>
    /\ conv = [u \in Accounts |-> NoConversation]

\* driver 3 presses the buttons of the offers and of the trips taken
NextTwoOrders ==
    \/ \E u \in OrderDrivers, t \in DeskTripIds : accept_trip(u, t)
    \/ \E u \in OrderDrivers : accept_trip_get_driver(u)
    \/ \E u \in OrderDrivers : accept_trip_update(u)
    \/ \E u \in OrderDrivers, t \in DeskTripIds : start_trip(u, t)
    \/ \E u \in OrderDrivers : start_trip_update(u)
    \/ \E u \in OrderDrivers, t \in DeskTripIds : complete_trip(u, t)
    \/ \E u \in OrderDrivers : complete_trip_recheck(u)
    \/ \E u \in OrderDrivers : complete_trip_update(u)
    \/ \E u \in OrderDrivers : complete_trip_count_passenger(u)
    \/ \E u \in OrderDrivers : complete_trip_count_driver(u)

SpecTwoOrders == InitTwoOrders /\ [][NextTwoOrders]_vars

\* the trips a driver is bound to that are accepted or started
ActiveTripsOf(d) ==
    {t \in DOMAIN trips : trips[t].driver_id = d
                          /\ trips[t].status \in {"accepted", "started"}}

\* C35: a driver is bound to at most one trip in status accepted or started
\* at any time; a driver with an active trip cannot accept a second one.
C35_OneActiveTripPerDriver ==
    \A d \in DOMAIN drivers : Cardinality(ActiveTripsOf(d)) <= 1

\* C36: the driver bound to a trip is never the trip's passenger, and no
\* completed trip has raised one user's trips_count twice.
C36_DriverIsNotPassenger ==
    /\ \A t \in DOMAIN trips : trips[t].driver_id # trips[t].passenger_id
    /\ \A u \in Users : users[u].trips_count <= Cardinality(CompletedTripsOf(u))

\* ------------------------------------------------------ the waiting timer
\* a store with one trip that driver 3 has started for passenger 1
InitWaiting ==
    /\ trips = <<TripIn("started")>>
    /\ users = [u \in Users |-> UserRow(u \in {1, 3}, u \in {2, 3})]
    /\ drivers = (2 :> DriverRow(0, 0)) @@ (3 :> DriverRow(1, 1))
    /\ user_data = [u \in Accounts |-> EmptySession]
    /\ pc = [u \in Accounts |-> "idle"]
    /\ loc = [u \in Accounts |-> NoLoc]
    /\ last = NoReply
    /\ accept_shown = {<<3, 1>>}
    /\ menus = {}
    /\ bot = Unloaded
    /\ offers = {<<3, 1>>}
    /\ now = 0
    /\ calls = 0
    /\ blocked = {}
    /\ undelivered = {}
    /\ quote = NoQuote
    /\ reviews = <<>>
    /\ conv = [u \in Accounts |-> NoConversation]

\* the driver starts and stops the timer as time passes and completes the
\* trip
NextWaiting ==
    \/ \E d \in TickSeconds : Tick(d)
    \/ \E u \in Waiters, t \in TripIds : start_waiting(u, t)
    \/ \E u \in Waiters, t \in TripIds : stop_waiting(u, t)
    \/ \E u \in Waiters, t \in TripIds : complete_trip(u, t)
    \/ \E u \in Waiters : complete_trip_recheck(u)
    \/ \E u \in Waiters : complete_trip_update(u)
    \/ \E u \in Waiters : complete_trip_count_passenger(u)
    \/ \E u \in Waiters : complete_trip_count_driver(u)

SpecWaiting == InitWaiting /\ [][NextWaiting]_vars

\* C37: the waiting minutes and the waiting surcharge stored on a trip never
\* decrease, whatever waiting periods are started and stopped on it.
C37_WaitingNeverDecreases ==
    [][\A t \in DOMAIN trips :
          /\ trips'[t].waiting_minutes >= trips[t].waiting_minutes
          /\ trips'[t].waiting_charge >= trips[t].waiting_charge]_vars

\* C38: on every trip the stored waiting surcharge is
\* calculate_waiting_charge of the stored waiting minutes, and both are 0
\* while no waiting is recorded.
C38_ChargeMatchesMinutes ==
    \A t \in DOMAIN trips :
        trips[t].waiting_charge = calculate_waiting_charge(trips[t].waiting_minutes)

\* a waiting period of six minutes is on the trip, with its surcharge
C38_Witness ==
    /\ last = "waiting_stopped"
    /\ trips[1].waiting_minutes = 6
    /\ trips[1].waiting_charge = 13

\* ------------------------------------------------- the menus of the order
\* a press of the button "trip_to_<city>" of a destination menu the user was
\* shown, whichever origin the session holds by now: the menus of earlier
\* messages stay in the chat
trip_to_pressed(u, city) ==
    /\ <<u, city>> \in menus
    /\ trip_confirm(u, city)

\* passenger 1 presses origin buttons and the destination buttons shown
NextMenus ==
    \/ \E u \in Riders, c \in Cities : trip_select_to(u, c)
    \/ \E u \in Riders, c \in Cities : trip_to_pressed(u, c)
    \/ \E u \in Riders : trip_confirm_insert(u)
    \/ \E u \in Riders : notify_drivers_about_trip(u)
    \/ \E u \in Riders : block_bot(u)

SpecMenus == InitTransport /\ [][NextMenus]_vars

\* C39: no trip is ever created whose origin equals its destination,
\* whatever origin and destination buttons were pressed before trip_confirm,
\* buttons of an earlier menu included.
C39_OriginDiffersFromDestination ==
    \A t \in DOMAIN trips : trips[t].from_city # trips[t].to_city

\* ------------------------------------------------- bot.py, as it is run
\* every variable but the interpreter of bot.py
desk_without_bot ==
    <<trips, users, drivers, user_data, pc, loc, last, accept_shown, menus,
      offers, now, calls, blocked, undelivered, quote, reviews, conv>>

\* bot.py:18, "from handlers import *"
import_handlers ==
    /\ bot.at = "import"
    /\ bot' = [bot EXCEPT
                 !.at = "stubs", !.step = 1,
                 !.globals = [n \in FunctionNames |->
                                IF n \in HandlerDefs THEN "handlers" ELSE "unbound"]]
    /\ UNCHANGED desk_without_bot

\* bot.py lines 197-236: a def statement binds its name in the globals of
\* the module, whatever the name was bound to
define_stub ==
    /\ bot.at = "stubs" /\ bot.step <= Len(Stubs)
    /\ bot' = [bot EXCEPT !.step = @ + 1, !.globals[Stubs[bot.step]] = "stub"]
    /\ UNCHANGED desk_without_bot

\* bot.py lines 238-239: main() is called by the last statement of the file
call_main ==
    /\ bot.at = "stubs" /\ bot.step > Len(Stubs)
    /\ bot' = [bot EXCEPT !.at = "main", !.step = 1]
    /\ UNCHANGED desk_without_bot

\* bot.py lines 87-179: the name is looked up in the globals when the
\* statement runs; a name that is not bound raises NameError, which main
\* logs and raises again (bot.py:192-194)
add_handler ==
    /\ bot.at = "main" /\ bot.step <= Len(Registrations)
    /\ LET name == Registrations[bot.step] IN
       bot' = IF bot.globals[name] = "unbound"
              THEN [bot EXCEPT !.at = "crashed"]
              ELSE [bot EXCEPT !.step = @ + 1,
                               !.table = Append(@, <<name, bot.globals[name]>>)]
    /\ UNCHANGED desk_without_bot

\* bot.py:190
run_polling ==
    /\ bot.at = "main" /\ bot.step > Len(Registrations)
    /\ bot' = [bot EXCEPT !.at = "polling"]
    /\ UNCHANGED desk_without_bot

\* an update is handed to a handler of the table: the function the handler
\* was built with is called
dispatch(i) ==
    /\ bot.at = "polling"
    /\ bot' = [bot EXCEPT !.ran = bot.table[i]]
    /\ UNCHANGED desk_without_bot

NextBot ==
    \/ import_handlers
    \/ define_stub
    \/ call_main
    \/ add_handler
    \/ run_polling
    \/ \E i \in DOMAIN bot.table : dispatch(i)

SpecBot == Init /\ [][NextBot]_vars

\* C40: every function main() registers under a name that handlers.py
\* defines is the implementation of handlers.py and not a no-op.
C40_RegisteredAreImplementations ==
    \A i \in DOMAIN bot.table :
        bot.table[i][1] \in HandlerDefs => bot.table[i][2] = "handlers"

====
